---- MODULE Spec2Model ----
(***************************************************************************)
(* Model of the C-ABI boundary of ChromaDB.NET (src/src): the error        *)
(* protocol, the handle lifecycle, the request translators and the result  *)
(* materializer.  One action per exported entry point; the engine (the     *)
(* chroma_frontend crate) and the request constructors of chroma_types are *)
(* external: their outcomes are nondeterministic inputs of each call.      *)
(***************************************************************************)
EXTENDS Integers, Sequences, FiniteSets, TLC

VARIABLES
    clients,      \* live ChromaClient boxes: handle address -> [runtime, frontend]
    runtimes,     \* live Tokio runtimes (execution contexts)
    collections,  \* live ChromaCollection boxes: handle address -> [id, tenant, database]
    call          \* the call that has just returned: [op, a, r], or IdleCall

vars == <<clients, runtimes, collections, call>>

----------------------------------------------------------------------------
(* Bounds of the model                                                     *)
MaxClients == 1
MaxCollections == 1
MaxRows == 2

----------------------------------------------------------------------------
(* error/mod.rs : ChromaErrorCode                                          *)
Success == 0
InvalidArgument == 1
InternalError == 2
MemoryError == 3
NotFound == 4
ValidationError == 5
InvalidUuid == 6
NotImplemented == 7

----------------------------------------------------------------------------
(* Pointers.  A raw pointer is NULL or points to one value.                *)
NULL == <<>>
Ptr(v) == <<v>>
Deref(p) == p[1]

(* Rust Option                                                             *)
None == [some |-> FALSE]
Some(v) == [some |-> TRUE, v |-> v]

(* Rust Result                                                             *)
Ok(v) == [ok |-> TRUE, v |-> v]
Err(e) == [ok |-> FALSE, e |-> e]

(* format!(..) : the format string and the values rendered into it         *)
Fmt(f, args) == [fmt |-> f, args |-> args]

(* Strings that carry an interior nul byte (CString::new rejects them)     *)
NulStrings == {"nul\\0inside"}

----------------------------------------------------------------------------
(* utils/mod.rs                                                            *)
DEFAULT_DATABASE == "default_database"
DEFAULT_TENANT == "default_tenant"

(* a reading that takes a null pointer for the empty text                  *)
c_str_to_string_null_as_empty(s) ==
    IF s = NULL THEN Ok("") ELSE Ok(Deref(s))

c_str_to_string(s) ==
    IF s = NULL THEN Err(Fmt("Null string pointer", <<>>))
    ELSE Ok(Deref(s))

string_to_c_str(s) ==
    IF s \in NulStrings THEN NULL ELSE Ptr(s)

(* string_to_c_str applied to the rendering of a format!(..)              *)
fmt_to_c_str(d) ==
    IF d.fmt \in NulStrings THEN NULL ELSE Ptr(d)

----------------------------------------------------------------------------
(* error/mod.rs : the error protocol.  set_error / set_success return the  *)
(* sequence of Error Objects they store through error_out.                 *)
ChromaError_new(code, message, source, details) ==
    [code |-> code,
     message |-> string_to_c_str(message),
     source |-> string_to_c_str(source),
     details |-> IF details.some THEN fmt_to_c_str(details.v) ELSE NULL]

ChromaError_success ==
    [code |-> Success, message |-> NULL, source |-> NULL, details |-> NULL]

set_error(error_out, code, message, source, details) ==
    IF error_out # NULL
    THEN << ChromaError_new(code, message, source, details) >>
    ELSE << >>

(* set_success that returns without storing                                *)
set_success_silent(error_out) == << >>


set_success(error_out) ==
    IF error_out # NULL THEN << ChromaError_success >> ELSE << >>

(* Heap objects that cross the boundary.  An allocation names the object   *)
(* and the routine that made it; a release names the object and the        *)
(* routine it was passed to.                                               *)
Alloc(obj, by) == [obj |-> obj, by |-> by]

(* lines 34-81: set_error / set_success box the Error Object, and          *)
(* ChromaError::new makes one CString per string it stores                 *)
ChromaError_allocations(error) ==
    {Alloc(<<"error">>, "Box::into_raw")}
    \cup {Alloc(<<"error", f>>, "CString::into_raw") :
            f \in {x \in {"message", "source", "details"} : error[x] # NULL}}

(* lines 85-108: the releases chroma_free_error makes, in order            *)
chroma_free_error(error) ==
    IF error # NULL
    THEN LET e == Deref(error)
             field(f) == IF e[f] # NULL
                         THEN <<Alloc(<<"error", f>>, "CString::from_raw")>>
                         ELSE << >>
         IN  field("message") \o field("source") \o field("details")
             \o <<Alloc(<<"error">>, "libc::free")>>
    ELSE << >>

----------------------------------------------------------------------------
(* What one call did: its return value, the Error Objects it stored        *)
(* through error_out, the values it stored through its output pointer, the *)
(* engine invocations it made, the runtimes it created and dropped; and    *)
(* the releases the caller has since made of the objects it was handed.    *)
Ret(rc, errs, outw, engine) ==
    [rc |-> rc, errs |-> errs, outw |-> outw, engine |-> engine,
     rtNew |-> 0, rtDropped |-> 0, box |-> None, freed |-> << >>]

(* a failure path that returns a code other than the one it stored         *)
Fail_other_code(a, code, message, source, details) ==
    Ret(IF code = InternalError THEN InvalidArgument ELSE InternalError,
        set_error(a.error_out, code, message, source, details), <<>>, <<>>)


(* set_error(..); return code as c_int;                                    *)
(* a failure path that reports Success to a caller who passed no error_out *)
Fail_needs_error_out(a, code, message, source, details) ==
    Ret(IF a.error_out = NULL THEN Success ELSE code,
        set_error(a.error_out, code, message, source, details), <<>>, <<>>)

Fail(a, code, message, source, details) ==
    Ret(code, set_error(a.error_out, code, message, source, details), <<>>, <<>>)

IdleCall == [op |-> "none"]

----------------------------------------------------------------------------
(* Argument values the caller can pass                                     *)
OutPtrs == {NULL, Ptr("slot")}
ClientPtrs == {NULL} \cup {Ptr(h) : h \in DOMAIN clients}
SelectorValues == {-1, 0, 1, 2}
EngineErrors == {"engine error"}

FreeClientAddrs == (1..MaxClients) \ DOMAIN clients
FreeCollectionAddrs == (1..MaxCollections) \ DOMAIN collections

----------------------------------------------------------------------------
(* client/mod.rs : chroma_create_client                                    *)
SqliteConfigs ==
    [url : {NULL, Ptr("sqlite://db")},
     hash_type : SelectorValues,
     migration_mode : SelectorValues]

CreateClientArgs ==
    [allow_reset : BOOLEAN,
     sqlite_config_ptr : {NULL} \cup {Ptr(c) : c \in SqliteConfigs},
     hnsw_cache_size : {0, 1000},
     persist_path_ptr : {NULL, Ptr("/data")},
     client_handle : OutPtrs,
     error_out : OutPtrs]

CreateClientEnv ==
    [runtime : {Ok("rt"), Err("os error")},
     init : {Ok("frontend")} \cup {Err(e) : e \in EngineErrors},
     addr : FreeClientAddrs]

MigrationHash(hash_type) == IF hash_type = 0 THEN "SHA256" ELSE "MD5"
MigrationMode(migration_mode) == IF migration_mode = 0 THEN "Apply" ELSE "Validate"

(* a config parser that reads an unknown selector as the second variant    *)
parse_sqlite_config_lenient(a, func_name) ==
    IF a.sqlite_config_ptr # NULL
    THEN LET sqlite_config == Deref(a.sqlite_config_ptr)
             url == c_str_to_string(sqlite_config.url)
         IN  IF ~url.ok
             THEN Err(Fail(a, InvalidArgument, "Invalid SQLite URL", func_name,
                           Some(url.e)))
             ELSE Ok([url |-> None,
                      hash_type |-> MigrationHash(sqlite_config.hash_type),
                      migration_mode |-> MigrationMode(sqlite_config.migration_mode)])
    ELSE Ok([url |-> None, hash_type |-> "SHA256", migration_mode |-> "Apply"])


(* lines 60-125: Ok(SqliteDBConfig) or the early return taken             *)
parse_sqlite_config(a, func_name) ==
    IF a.sqlite_config_ptr # NULL
    THEN LET sqlite_config == Deref(a.sqlite_config_ptr)
             url == c_str_to_string(sqlite_config.url)
         IN  IF ~url.ok
             THEN Err(Fail(a, InvalidArgument, "Invalid SQLite URL", func_name,
                           Some(url.e)))
             ELSE IF sqlite_config.hash_type \notin {0, 1}
             THEN Err(Fail(a, InvalidArgument, "Invalid hash type", func_name,
                           Some(Fmt("Got {}, expected 0 (SHA256) or 1 (MD5)",
                                    <<sqlite_config.hash_type>>))))
             ELSE IF sqlite_config.migration_mode \notin {0, 1}
             THEN Err(Fail(a, InvalidArgument, "Invalid migration mode", func_name,
                           Some(Fmt("Got {}, expected 0 (Apply) or 1 (Validate)",
                                    <<sqlite_config.migration_mode>>))))
             ELSE Ok([url |-> None,
                      hash_type |-> MigrationHash(sqlite_config.hash_type),
                      migration_mode |-> MigrationMode(sqlite_config.migration_mode)])
    ELSE Ok([url |-> None, hash_type |-> "SHA256", migration_mode |-> "Apply"])

chroma_create_client(a, env) ==
    LET func_name == "chroma_create_client"
        sqlite_db_config == parse_sqlite_config(a, func_name)
        persist_path == IF a.persist_path_ptr # NULL
                        THEN Some(c_str_to_string(a.persist_path_ptr).v)
                        ELSE None
        frontend_config ==
            [allow_reset |-> a.allow_reset,
             segment_manager |-> [capacity |-> a.hnsw_cache_size,
                                  persist_path |-> persist_path],
             sqlitedb |-> sqlite_db_config.v,
             default_knn_index |-> "Hnsw"]
        invocation == [fn |-> "try_from_config", req |-> frontend_config,
                       rt |-> env.addr, frontend |-> env.addr]
    IN  IF a.client_handle = NULL
        THEN Fail(a, InvalidArgument, "Client handle pointer is null", func_name, None)
        ELSE IF ~sqlite_db_config.ok
        THEN sqlite_db_config.e
        ELSE IF ~env.runtime.ok
        THEN Fail(a, InternalError, "Failed to create Tokio runtime", func_name,
                  Some(Fmt("{}", <<env.runtime.e>>)))
        ELSE IF ~env.init.ok
        THEN [Fail(a, InternalError, "Failed to create Chroma frontend", func_name,
                   Some(Fmt("{}", <<env.init.e>>)))
                EXCEPT !.engine = <<invocation>>, !.rtNew = 1, !.rtDropped = 1]
        ELSE [Ret(Success, set_success(a.error_out), <<Ptr(env.addr)>>, <<invocation>>)
                EXCEPT !.rtNew = 1,
                       !.box = Some([runtime |-> env.addr,
                                     frontend |-> env.addr])]

create_client ==
    /\ call = IdleCall
    /\ \E a \in CreateClientArgs, env \in CreateClientEnv :
          LET r == chroma_create_client(a, env)
          IN  /\ call' = [op |-> "chroma_create_client", a |-> a, r |-> r]
              /\ clients' = IF r.box.some
                            THEN clients @@ (env.addr :> r.box.v)
                            ELSE clients
              /\ runtimes' = IF r.rtNew > r.rtDropped
                             THEN runtimes \cup {env.addr}
                             ELSE runtimes
    /\ UNCHANGED collections

----------------------------------------------------------------------------
(* client/mod.rs : chroma_destroy_client                                   *)
DestroyClientArgs == [client_handle : ClientPtrs, error_out : OutPtrs]

(* a destroy that reports Success and keeps the handle                     *)
chroma_destroy_client_keeps(a) ==
    LET func_name == "chroma_destroy_client"
    IN  IF a.client_handle = NULL
        THEN Fail(a, InvalidArgument, "Client handle pointer is null", func_name, None)
        ELSE Ret(Success, set_success(a.error_out), <<>>, <<>>)

chroma_destroy_client(a) ==
    LET func_name == "chroma_destroy_client"
    IN  IF a.client_handle = NULL
        THEN Fail(a, InvalidArgument, "Client handle pointer is null", func_name, None)
        ELSE [Ret(Success, set_success(a.error_out), <<>>, <<>>)
                EXCEPT !.rtDropped = 1, !.box = Some(Deref(a.client_handle))]

destroy_client ==
    /\ call = IdleCall
    /\ \E a \in DestroyClientArgs :
          LET r == chroma_destroy_client(a)
          IN  /\ call' = [op |-> "chroma_destroy_client", a |-> a, r |-> r]
              /\ clients' = IF r.box.some
                            THEN [h \in DOMAIN clients \ {r.box.v} |-> clients[h]]
                            ELSE clients
              /\ runtimes' = IF r.box.some
                             THEN runtimes \ {clients[r.box.v].runtime}
                             ELSE runtimes
    /\ UNCHANGED collections

----------------------------------------------------------------------------
(* client/mod.rs : chroma_heartbeat                                        *)
HeartbeatArgs == [client_handle : ClientPtrs, result : OutPtrs, error_out : OutPtrs]
HeartbeatEnv == [now : {Ok(1700000000), Err("second time provided was later than self")}]

(* a heartbeat that stores through result before it reads the clock       *)
chroma_heartbeat_early_store(a, env) ==
    LET func_name == "chroma_heartbeat"
    IN  IF a.client_handle = NULL \/ a.result = NULL
        THEN Fail(a, InvalidArgument,
                  IF a.client_handle = NULL THEN "Client handle pointer is null"
                  ELSE "Result pointer is null",
                  func_name, None)
        ELSE IF ~env.now.ok
        THEN [Fail(a, InternalError, "Failed to get system time", func_name,
                   Some(Fmt("{}", <<env.now.e>>)))
                EXCEPT !.outw = <<0>>]
        ELSE Ret(Success, set_success(a.error_out), <<env.now.v>>, <<>>)


chroma_heartbeat(a, env) ==
    LET func_name == "chroma_heartbeat"
    IN  IF a.client_handle = NULL \/ a.result = NULL
        THEN Fail(a, InvalidArgument,
                  IF a.client_handle = NULL THEN "Client handle pointer is null"
                  ELSE "Result pointer is null",
                  func_name, None)
        ELSE IF ~env.now.ok
        THEN Fail(a, InternalError, "Failed to get system time", func_name,
                  Some(Fmt("{}", <<env.now.e>>)))
        ELSE Ret(Success, set_success(a.error_out), <<env.now.v>>, <<>>)

heartbeat ==
    /\ call = IdleCall
    /\ \E a \in HeartbeatArgs, env \in HeartbeatEnv :
          call' = [op |-> "chroma_heartbeat", a |-> a, r |-> chroma_heartbeat(a, env)]
    /\ UNCHANGED <<clients, runtimes, collections>>

----------------------------------------------------------------------------
(* External parsers and constructors (serde_json, uuid, chroma_types)      *)
ValidJsonStrings == {"{\"k\":1}", "{\"$bad\":1}"}
InvalidFilterStrings == {"{\"$bad\":1}"}
ValidUuidStrings == {"6f1c0e7a-0000-4000-8000-000000000001"}

(* serde_json::from_str::<T>                                               *)
serde_json_from_str(s) ==
    IF s \in ValidJsonStrings
    THEN Ok([json |-> s])
    ELSE Err(Fmt("expected value at line 1 column 1", <<>>))

(* uuid::Uuid::parse_str                                                   *)
Uuid_parse_str(s) ==
    IF s \in ValidUuidStrings
    THEN Ok([uuid |-> s])
    ELSE Err(Fmt("invalid character", <<>>))

(* <Request>::try_new : the domain validation of chroma_types, which       *)
(* accepts or rejects the request it is given                              *)
try_new(kind, fields, verdict) ==
    IF verdict = "valid"
    THEN Ok([kind |-> kind, fields |-> fields])
    ELSE Err(Fmt("{:?}", <<"ValidationErrors">>))

Verdicts == {"valid", "invalid"}

StrPtrs(S) == {NULL} \cup {Ptr(x) : x \in S}

----------------------------------------------------------------------------
(* client/mod.rs : chroma_create_database / get_database / delete_database *)
DatabaseArgs ==
    [client_handle : ClientPtrs,
     name_ptr : StrPtrs({"db1"}),
     tenant_ptr : StrPtrs({"t1"}),
     error_out : OutPtrs]

GetDatabaseArgs ==
    [client_handle : ClientPtrs,
     name_ptr : StrPtrs({"db1"}),
     tenant_ptr : StrPtrs({"t1"}),
     id_result : OutPtrs,
     error_out : OutPtrs]

DatabaseEnv ==
    [verdict : Verdicts,
     engine : {Ok([id |-> "6f1c0e7a-0000-4000-8000-0000000000db"])}
              \cup {Err(e) : e \in EngineErrors}]

(* an invocation on a runtime that belongs to no client                    *)
Invoke_elsewhere(client_handle, fn, request) ==
    [fn |-> fn, req |-> request, rt |-> 0,
     frontend |-> clients[Deref(client_handle)].frontend]

(* block_on(frontend.<fn>(request)) on the runtime of the client           *)
Invoke(client_handle, fn, request) ==
    [fn |-> fn, req |-> request, rt |-> clients[Deref(client_handle)].runtime,
     frontend |-> clients[Deref(client_handle)].frontend]

chroma_create_database(a, env) ==
    LET func_name == "chroma_create_database"
        tenant == IF a.tenant_ptr # NULL THEN Deref(a.tenant_ptr) ELSE DEFAULT_TENANT
        request == try_new("CreateDatabaseRequest",
                           <<tenant, c_str_to_string(a.name_ptr).v>>, env.verdict)
    IN  IF a.client_handle = NULL \/ a.name_ptr = NULL
        THEN Fail(a, InvalidArgument,
                  IF a.client_handle = NULL THEN "Client handle pointer is null"
                  ELSE "Database name pointer is null",
                  func_name, None)
        ELSE IF ~request.ok
        THEN Fail(a, ValidationError, "Failed to create database request", func_name,
                  Some(Fmt("Validation error: {:?}", <<request.e>>)))
        ELSE IF env.engine.ok
        THEN Ret(Success, set_success(a.error_out), <<>>,
                 <<Invoke(a.client_handle, "create_database", request.v)>>)
        ELSE [Fail(a, InternalError, "Failed to create database", func_name,
                   Some(Fmt("Error: {:?}", <<env.engine.e>>)))
                EXCEPT !.engine = <<Invoke(a.client_handle, "create_database", request.v)>>]

chroma_get_database(a, env) ==
    LET func_name == "chroma_get_database"
        tenant == IF a.tenant_ptr # NULL THEN Deref(a.tenant_ptr) ELSE DEFAULT_TENANT
        request == try_new("GetDatabaseRequest",
                           <<tenant, c_str_to_string(a.name_ptr).v>>, env.verdict)
    IN  IF a.client_handle = NULL \/ a.name_ptr = NULL \/ a.id_result = NULL
        THEN Fail(a, InvalidArgument,
                  IF a.client_handle = NULL THEN "Client handle pointer is null"
                  ELSE IF a.name_ptr = NULL THEN "Database name pointer is null"
                  ELSE "ID result pointer is null",
                  func_name, None)
        ELSE IF ~request.ok
        THEN Fail(a, ValidationError, "Failed to create get database request",
                  func_name, Some(Fmt("Validation error: {:?}", <<request.e>>)))
        ELSE IF env.engine.ok
        THEN Ret(Success, set_success(a.error_out),
                 <<string_to_c_str(env.engine.v.id)>>,
                 <<Invoke(a.client_handle, "get_database", request.v)>>)
        ELSE [Fail(a, NotFound, "Database not found", func_name,
                   Some(Fmt("Error: {:?}", <<env.engine.e>>)))
                EXCEPT !.engine = <<Invoke(a.client_handle, "get_database", request.v)>>]

chroma_delete_database(a, env) ==
    LET func_name == "chroma_delete_database"
        tenant == IF a.tenant_ptr # NULL THEN Deref(a.tenant_ptr) ELSE DEFAULT_TENANT
        request == try_new("DeleteDatabaseRequest",
                           <<tenant, c_str_to_string(a.name_ptr).v>>, env.verdict)
    IN  IF a.client_handle = NULL \/ a.name_ptr = NULL
        THEN Fail(a, InvalidArgument,
                  IF a.client_handle = NULL THEN "Client handle pointer is null"
                  ELSE "Database name pointer is null",
                  func_name, None)
        ELSE IF ~request.ok
        THEN Fail(a, ValidationError, "Failed to create delete database request",
                  func_name, Some(Fmt("Validation error: {:?}", <<request.e>>)))
        ELSE IF env.engine.ok
        THEN Ret(Success, set_success(a.error_out), <<>>,
                 <<Invoke(a.client_handle, "delete_database", request.v)>>)
        ELSE [Fail(a, InternalError, "Failed to delete database", func_name,
                   Some(Fmt("Error: {:?}", <<env.engine.e>>)))
                EXCEPT !.engine = <<Invoke(a.client_handle, "delete_database", request.v)>>]

create_database ==
    /\ call = IdleCall
    /\ \E a \in DatabaseArgs, env \in DatabaseEnv :
          call' = [op |-> "chroma_create_database", a |-> a,
                   r |-> chroma_create_database(a, env)]
    /\ UNCHANGED <<clients, runtimes, collections>>

get_database ==
    /\ call = IdleCall
    /\ \E a \in GetDatabaseArgs, env \in DatabaseEnv :
          call' = [op |-> "chroma_get_database", a |-> a,
                   r |-> chroma_get_database(a, env)]
    /\ UNCHANGED <<clients, runtimes, collections>>

delete_database ==
    /\ call = IdleCall
    /\ \E a \in DatabaseArgs, env \in DatabaseEnv :
          call' = [op |-> "chroma_delete_database", a |-> a,
                   r |-> chroma_delete_database(a, env)]
    /\ UNCHANGED <<clients, runtimes, collections>>

----------------------------------------------------------------------------
(* collection/management.rs : chroma_create_collection                     *)
(* the tenant and database pointers a caller passes: both null (the        *)
(* defaults apply) or both given                                           *)
NamespacePtrs == {<<NULL, NULL>>, <<Ptr("t1"), Ptr("d1")>>}

CreateCollectionArgs ==
    UNION { [client_handle : ClientPtrs,
             name_ptr : StrPtrs({"c1"}),
             config_json_ptr : StrPtrs({"{\"k\":1}", "not json"}),
             metadata_json_ptr : StrPtrs({"{\"k\":1}", "not json"}),
             get_or_create : BOOLEAN,
             tenant_ptr : {ns[1]},
             database_ptr : {ns[2]},
             collection_handle : OutPtrs,
             error_out : OutPtrs] : ns \in NamespacePtrs }

CollectionEnv ==
    [config : Verdicts,
     verdict : Verdicts,
     engine : {Ok([collection_id |-> u]) : u \in ValidUuidStrings}
              \cup {Err(e) : e \in EngineErrors},
     addr : FreeCollectionAddrs]

chroma_create_collection(a, env) ==
    LET func_name == "chroma_create_collection"
        name == c_str_to_string(a.name_ptr).v
        tenant == IF a.tenant_ptr # NULL THEN Deref(a.tenant_ptr) ELSE DEFAULT_TENANT
        database == IF a.database_ptr # NULL THEN Deref(a.database_ptr)
                    ELSE DEFAULT_DATABASE
        configuration_json == IF a.config_json_ptr # NULL
                              THEN serde_json_from_str(Deref(a.config_json_ptr))
                              ELSE Ok(None)
        metadata == IF a.metadata_json_ptr # NULL
                    THEN serde_json_from_str(Deref(a.metadata_json_ptr))
                    ELSE Ok(None)
        configuration == IF a.config_json_ptr # NULL
                         THEN try_new("InternalCollectionConfiguration",
                                      <<configuration_json.v, "Hnsw">>, env.config)
                         ELSE Ok(None)
        request == try_new("CreateCollectionRequest",
                           <<tenant, database, name, metadata.v, configuration.v,
                             a.get_or_create>>, env.verdict)
        invocation == Invoke(a.client_handle, "create_collection", request.v)
    IN  IF a.client_handle = NULL \/ a.name_ptr = NULL \/ a.collection_handle = NULL
        THEN Fail(a, InvalidArgument,
                  IF a.client_handle = NULL THEN "Client handle pointer is null"
                  ELSE IF a.name_ptr = NULL THEN "Collection name pointer is null"
                  ELSE "Collection handle output pointer is null",
                  func_name, None)
        ELSE IF ~configuration_json.ok
        THEN Fail(a, ValidationError, "Failed to parse configuration JSON", func_name,
                  Some(configuration_json.e))
        ELSE IF ~metadata.ok
        THEN Fail(a, ValidationError, "Failed to parse metadata JSON", func_name,
                  Some(metadata.e))
        ELSE IF ~configuration.ok
        THEN Fail(a, ValidationError, "Invalid collection configuration", func_name,
                  Some(Fmt("Configuration validation error: {:?}", <<configuration.e>>)))
        ELSE IF ~request.ok
        THEN Fail(a, ValidationError, "Failed to create collection request", func_name,
                  Some(Fmt("Validation error: {:?}", <<request.e>>)))
        ELSE IF env.engine.ok
        THEN [Ret(Success, set_success(a.error_out), <<Ptr(env.addr)>>, <<invocation>>)
                EXCEPT !.box = Some([id |-> env.engine.v.collection_id,
                                     tenant |-> tenant,
                                     database |-> database])]
        ELSE [Fail(a, InternalError, "Failed to create collection", func_name,
                   Some(Fmt("Error: {:?}", <<env.engine.e>>)))
                EXCEPT !.engine = <<invocation>>]

create_collection ==
    /\ call = IdleCall
    /\ \E a \in CreateCollectionArgs, env \in CollectionEnv :
          LET r == chroma_create_collection(a, env)
          IN  /\ call' = [op |-> "chroma_create_collection", a |-> a, r |-> r]
              /\ collections' = IF r.box.some
                                THEN collections @@ (env.addr :> r.box.v)
                                ELSE collections
    /\ UNCHANGED <<clients, runtimes>>

----------------------------------------------------------------------------
(* collection/management.rs : chroma_get_collection                        *)
GetCollectionArgs ==
    UNION { [client_handle : ClientPtrs,
             name_ptr : StrPtrs({"c1"}),
             tenant_ptr : {ns[1]},
             database_ptr : {ns[2]},
             collection_handle : OutPtrs,
             error_out : OutPtrs] : ns \in NamespacePtrs }

chroma_get_collection(a, env) ==
    LET func_name == "chroma_get_collection"
        name == c_str_to_string(a.name_ptr).v
        tenant == IF a.tenant_ptr # NULL THEN Deref(a.tenant_ptr) ELSE DEFAULT_TENANT
        database == IF a.database_ptr # NULL THEN Deref(a.database_ptr)
                    ELSE DEFAULT_DATABASE
        request == try_new("GetCollectionRequest", <<tenant, database, name>>,
                           env.verdict)
        invocation == Invoke(a.client_handle, "get_collection", request.v)
    IN  IF a.client_handle = NULL \/ a.name_ptr = NULL \/ a.collection_handle = NULL
        THEN Fail(a, InvalidArgument,
                  IF a.client_handle = NULL THEN "Client handle pointer is null"
                  ELSE IF a.name_ptr = NULL THEN "Collection name pointer is null"
                  ELSE "Collection handle output pointer is null",
                  func_name, None)
        ELSE IF ~request.ok
        THEN Fail(a, ValidationError, "Failed to create get collection request",
                  func_name, Some(Fmt("Validation error: {:?}", <<request.e>>)))
        ELSE IF env.engine.ok
        THEN [Ret(Success, set_success(a.error_out), <<Ptr(env.addr)>>, <<invocation>>)
                EXCEPT !.box = Some([id |-> env.engine.v.collection_id,
                                     tenant |-> tenant,
                                     database |-> database])]
        ELSE [Fail(a, NotFound, "Collection not found", func_name,
                   Some(Fmt("Error: {:?}", <<env.engine.e>>)))
                EXCEPT !.engine = <<invocation>>]

get_collection ==
    /\ call = IdleCall
    /\ \E a \in GetCollectionArgs, env \in CollectionEnv :
          LET r == chroma_get_collection(a, env)
          IN  /\ call' = [op |-> "chroma_get_collection", a |-> a, r |-> r]
              /\ collections' = IF r.box.some
                                THEN collections @@ (env.addr :> r.box.v)
                                ELSE collections
    /\ UNCHANGED <<clients, runtimes>>

----------------------------------------------------------------------------
(* collection/types.rs : chroma_destroy_collection (no error out-parameter) *)
(* A collection handle is NULL, a handle returned by create/get_collection, *)
(* or a ChromaCollection that this library did not build: the boundary      *)
(* cannot check where a handle comes from.                                  *)
ForeignCollectionAddr == MaxCollections + 1
ForeignCollection ==
    [id |-> "not-a-uuid", tenant |-> DEFAULT_TENANT, database |-> DEFAULT_DATABASE]
OwnCollectionPtrs == {NULL} \cup {Ptr(h) : h \in DOMAIN collections}
CollectionPtrs == OwnCollectionPtrs \cup {Ptr(ForeignCollectionAddr)}
CollectionAt(p) ==
    IF Deref(p) \in DOMAIN collections THEN collections[Deref(p)]
    ELSE ForeignCollection

DestroyCollectionArgs == [collection_handle : OwnCollectionPtrs, error_out : {NULL}]

(* a destroy that takes a null handle as nothing to do                     *)
chroma_destroy_collection_null_ok(a) ==
    IF a.collection_handle # NULL
    THEN [Ret(Success, <<>>, <<>>, <<>>) EXCEPT !.box = Some(Deref(a.collection_handle))]
    ELSE Ret(Success, <<>>, <<>>, <<>>)

chroma_destroy_collection(a) ==
    IF a.collection_handle # NULL
    THEN [Ret(Success, <<>>, <<>>, <<>>) EXCEPT !.box = Some(Deref(a.collection_handle))]
    ELSE Ret(InvalidArgument, <<>>, <<>>, <<>>)

destroy_collection ==
    /\ call = IdleCall
    /\ \E a \in DestroyCollectionArgs :
          LET r == chroma_destroy_collection(a)
          IN  /\ call' = [op |-> "chroma_destroy_collection", a |-> a, r |-> r]
              /\ collections' = IF r.box.some
                                THEN [h \in DOMAIN collections \ {r.box.v}
                                        |-> collections[h]]
                                ELSE collections
    /\ UNCHANGED <<clients, runtimes>>

----------------------------------------------------------------------------
(* utils/mod.rs : array converters                                         *)
Least(S) == CHOOSE i \in S : \A j \in S : i <= j

(* c_array_to_vec_string: a null base pointer reads as the empty vector, a *)
(* null row is pushed as String::new()                                     *)
c_array_to_vec_string(array, count) ==
    IF array = NULL
    THEN Ok(<< >>)
    ELSE LET rows == Deref(array)
             conv == [i \in 1..count |->
                        IF rows[i] # NULL THEN c_str_to_string(rows[i]) ELSE Ok("")]
             bad == {i \in 1..count : ~conv[i].ok}
         IN  IF bad # {} THEN Err(conv[Least(bad)].e)
             ELSE Ok([i \in 1..count |-> conv[i].v])

(* c_array_to_vec_f32: slice::from_raw_parts(array, count).to_vec()        *)
c_array_to_vec_f32(array, count) ==
    IF array = NULL THEN << >>
    ELSE SubSeq(Deref(array), 1, count)

----------------------------------------------------------------------------
(* collection/operations.rs : argument values of add / update / upsert     *)
IdStrings == {"id1"}
MetaStrings == {"{\"k\":1}", "not json"}
DocStrings == {"doc"}
FloatBuffers == {<<10, 20, 30>>}
RowDims == {2}

(* arrays of n row pointers, as functions of n: every combination of rows, *)
(* rows all alike, or one array of valid rows                              *)
RowCounts == 0..MaxRows
RowArrays(S) ==
    [n \in RowCounts |-> {NULL} \cup {Ptr(rows) : rows \in [1..n -> StrPtrs(S)]}]
UniformRowArrays(S) ==
    [n \in RowCounts |-> {NULL} \cup {Ptr([i \in 1..n |-> v]) : v \in StrPtrs(S)}]
PlainRowArrays(S) ==
    [n \in {1} |-> {Ptr([i \in 1..n |-> Ptr(v)]) : v \in S}]
EmbeddingRows == {NULL} \cup {Ptr(b) : b \in FloatBuffers}
EmbeddingArrays ==
    [n \in RowCounts |-> {NULL} \cup {Ptr(rows) : rows \in [1..n -> EmbeddingRows]}]
UniformEmbeddingArrays ==
    [n \in RowCounts |-> {NULL} \cup {Ptr([i \in 1..n |-> v]) : v \in EmbeddingRows}]
PlainEmbeddingArrays ==
    [n \in {1} |-> {Ptr([i \in 1..n |-> Ptr(b)]) : b \in FloatBuffers}]

LiveClientPtrs == ClientPtrs \ {NULL}
LiveCollectionPtrs == OwnCollectionPtrs \ {NULL}

MutationArgsOver(Clients, Collections, ErrorOuts, Ids, Embeddings, Metas, Docs) ==
    UNION { [client_handle : Clients,
             collection_handle : Collections,
             ids : Ids[n],
             ids_count : {n},
             embeddings : Embeddings[n],
             embedding_dim : RowDims,
             metadatas_json : Metas[n],
             documents : Docs[n],
             error_out : ErrorOuts] : n \in DOMAIN Ids }

(* every handle and error pointer with one array of valid rows, and the    *)
(* handles that pass the null checks with rows all alike                   *)
MutationArgs ==
    MutationArgsOver(ClientPtrs, CollectionPtrs, OutPtrs,
                     PlainRowArrays(IdStrings), PlainEmbeddingArrays,
                     PlainRowArrays(ValidJsonStrings), PlainRowArrays(DocStrings))
    \cup
    MutationArgsOver(LiveClientPtrs, CollectionPtrs \ {NULL}, OutPtrs,
                     UniformRowArrays(IdStrings), UniformEmbeddingArrays,
                     UniformRowArrays(MetaStrings), UniformRowArrays(DocStrings))

(* valid handles and an error pointer; one of the four arrays takes every  *)
(* combination of rows while the others have rows all alike; the empty     *)
(* string is among the row values                                          *)
RowMutationArgs ==
    LET Over(Ids, Embeddings, Metas, Docs) ==
            MutationArgsOver(LiveClientPtrs, LiveCollectionPtrs, OutPtrs \ {NULL},
                             Ids, Embeddings, Metas, Docs)
        ids == UniformRowArrays(IdStrings)
        embeddings == UniformEmbeddingArrays
        metas == UniformRowArrays(MetaStrings \cup {""})
        docs == UniformRowArrays(DocStrings \cup {""})
    IN  Over(RowArrays(IdStrings), embeddings, metas, docs)
        \cup Over(ids, EmbeddingArrays, metas, docs)
        \cup Over(ids, embeddings, RowArrays(MetaStrings \cup {""}), docs)
        \cup Over(ids, embeddings, metas, RowArrays(DocStrings \cup {""}))

MutationEnv(verdict) ==
    [verdict : {verdict},
     engine : {Ok("done")} \cup {Err(e) : e \in EngineErrors}]

(* lines 35-55, 362-381, 583-602: the required-pointer checks             *)
check_mutation_args(a, func_name) ==
    IF a.client_handle = NULL \/ a.collection_handle = NULL
       \/ a.ids = NULL \/ a.ids_count = 0
    THEN Err(Fail(a, InvalidArgument,
                  IF a.client_handle = NULL THEN "Client handle pointer is null"
                  ELSE IF a.collection_handle = NULL
                       THEN "Collection handle pointer is null"
                  ELSE IF a.ids = NULL THEN "IDs pointer is null"
                  ELSE "IDs count is zero",
                  func_name, None))
    ELSE Ok(TRUE)

(* lines 60-75: ids                                                       *)
decode_ids(a, func_name) ==
    LET v == c_array_to_vec_string(a.ids, a.ids_count)
    IN  IF v.ok THEN Ok(v.v)
        ELSE Err(Fail(a, InvalidArgument, "Failed to convert IDs array", func_name,
                      Some(v.e)))

(* an add that decodes a null row like any other                           *)
decode_embeddings_add_unchecked(a, func_name) ==
    IF a.embeddings # NULL
    THEN Ok(Some([i \in 1..a.ids_count |->
                    c_array_to_vec_f32(Deref(a.embeddings)[i], a.embedding_dim)]))
    ELSE Ok(Some(<< >>))


(* lines 77-107 (add): every row is required, and so is the base pointer   *)
decode_embeddings_add(a, func_name) ==
    IF a.embeddings # NULL
    THEN LET rows == Deref(a.embeddings)
             nullRows == {i \in 1..a.ids_count : rows[i] = NULL}
         IN  IF nullRows # {}
             THEN Err(Fail(a, InvalidArgument, "Embedding pointer is null", func_name,
                           Some(Fmt("Null embedding at index {}",
                                    <<Least(nullRows) - 1>>))))
             ELSE Ok(Some([i \in 1..a.ids_count |->
                             c_array_to_vec_f32(rows[i], a.embedding_dim)]))
    ELSE Err(Fail(a, InvalidArgument, "Embeddings pointer is null", func_name, None))

(* an update that decodes a null row like any other                        *)
decode_embeddings_update_unchecked(a, func_name) ==
    IF a.embeddings # NULL
    THEN Ok(Some([i \in 1..a.ids_count |->
                    Some(c_array_to_vec_f32(Deref(a.embeddings)[i], a.embedding_dim))]))
    ELSE Ok(None)


(* lines 403-420 (update): a null row is pushed as None                    *)
decode_embeddings_update(a, func_name) ==
    IF a.embeddings # NULL
    THEN LET rows == Deref(a.embeddings)
         IN  Ok(Some([i \in 1..a.ids_count |->
                        IF rows[i] # NULL
                        THEN Some(c_array_to_vec_f32(rows[i], a.embedding_dim))
                        ELSE None]))
    ELSE Ok(None)

(* lines 624-647 (upsert): a null row is an error, a null base is None     *)
decode_embeddings_upsert(a, func_name) ==
    IF a.embeddings # NULL
    THEN LET rows == Deref(a.embeddings)
             nullRows == {i \in 1..a.ids_count : rows[i] = NULL}
         IN  IF nullRows # {}
             THEN Err(Fail(a, InvalidArgument, "Embedding pointer is null", func_name,
                           Some(Fmt("Null embedding at index {}",
                                    <<Least(nullRows) - 1>>))))
             ELSE Ok(Some([i \in 1..a.ids_count |->
                             c_array_to_vec_f32(rows[i], a.embedding_dim)]))
    ELSE Ok(None)

(* a metadata decoder that parses the empty text as JSON                   *)
decode_metadatas_parses_empty(a, func_name) ==
    IF a.metadatas_json # NULL
    THEN LET rows == Deref(a.metadatas_json)
             conv == [i \in 1..a.ids_count |->
                        IF rows[i] # NULL
                        THEN LET m == serde_json_from_str(c_str_to_string(rows[i]).v)
                             IN  IF m.ok THEN Ok(Some(m.v)) ELSE m
                        ELSE Ok(None)]
             bad == {i \in 1..a.ids_count : ~conv[i].ok}
         IN  IF bad # {}
             THEN Err(Fail(a, ValidationError, "Invalid metadata JSON", func_name,
                           Some(Fmt("Error parsing metadata at index {}: {}",
                                    <<Least(bad) - 1>>))))
             ELSE Ok(Some([i \in 1..a.ids_count |-> conv[i].v]))
    ELSE Ok(None)

(* lines 109-155, 422-468, 649-695: per-row metadata JSON                  *)
decode_metadatas(a, func_name) ==
    IF a.metadatas_json # NULL
    THEN LET rows == Deref(a.metadatas_json)
             conv == [i \in 1..a.ids_count |->
                        IF rows[i] # NULL
                        THEN LET metadata_str == c_str_to_string(rows[i]).v
                             IN  IF metadata_str = "" THEN Ok(None)
                                 ELSE LET m == serde_json_from_str(metadata_str)
                                      IN  IF m.ok THEN Ok(Some(m.v)) ELSE m
                        ELSE Ok(None)]
             bad == {i \in 1..a.ids_count : ~conv[i].ok}
         IN  IF bad # {}
             THEN Err(Fail(a, ValidationError, "Invalid metadata JSON", func_name,
                           Some(Fmt("Error parsing metadata at index {}: {}",
                                    <<Least(bad) - 1>>))))
             ELSE Ok(Some([i \in 1..a.ids_count |-> conv[i].v]))
    ELSE Ok(None)

(* a document decoder that requires every row                              *)
decode_documents_strict(a, func_name) ==
    IF a.documents # NULL
    THEN LET rows == Deref(a.documents)
             nullRows == {i \in 1..a.ids_count : rows[i] = NULL}
         IN  IF nullRows # {}
             THEN Err(Fail(a, InvalidArgument, "Failed to convert document string",
                           func_name,
                           Some(Fmt("Error at index {}: {}", <<Least(nullRows) - 1>>))))
             ELSE Ok(Some([i \in 1..a.ids_count |->
                             LET doc == c_str_to_string(rows[i]).v
                             IN  IF doc = "" THEN None ELSE Some(doc)]))
    ELSE Ok(None)

(* lines 157-191, 470-504, 697-731: per-row documents                      *)
decode_documents(a, func_name) ==
    IF a.documents # NULL
    THEN LET rows == Deref(a.documents)
         IN  Ok(Some([i \in 1..a.ids_count |->
                        IF rows[i] # NULL
                        THEN LET doc == c_str_to_string(rows[i]).v
                             IN  IF doc = "" THEN None ELSE Some(doc)
                        ELSE None]))
    ELSE Ok(None)

(* an id check that runs after the engine was asked                        *)
parse_collection_id_late(a, func_name) ==
    LET id == Uuid_parse_str(CollectionAt(a.collection_handle).id)
    IN  IF id.ok THEN Ok(id.v)
        ELSE Err([Fail(a, InvalidUuid, "Invalid collection UUID", func_name,
                       Some(Fmt("UUID parse error: {}", <<id.e>>)))
                    EXCEPT !.engine = <<Invoke(a.client_handle, "lookup", id)>>])


(* lines 193-206 and the like: the collection id of the handle             *)
parse_collection_id(a, func_name) ==
    LET id == Uuid_parse_str(CollectionAt(a.collection_handle).id)
    IN  IF id.ok THEN Ok(id.v)
        ELSE Err(Fail(a, InvalidUuid, "Invalid collection UUID", func_name,
                      Some(Fmt("UUID parse error: {}", <<id.e>>))))

(* the environment of a call: the verdict of the request constructor, the  *)
(* outcome of the engine call and of the allocations.  A call that returns *)
(* before it reaches the engine reads neither of the last two.             *)
EnvReached(Envs, reached) ==
    IF reached THEN Envs ELSE {CHOOSE e \in Envs : TRUE}

(* <Request>::try_new over the decoded rows (lines 208-230, 521-543,       *)
(* 748-770)                                                                *)
mutation_request(a, verdict, func_name, kind, ids_vec, embeddings_vec, documents_vec, metadatas_vec, collection_id, validationMsg) ==
    LET collection == CollectionAt(a.collection_handle)
        request == try_new(kind,
                           [tenant |-> collection.tenant,
                            database |-> collection.database,
                            collection_id |-> collection_id,
                            ids |-> ids_vec,
                            embeddings |-> embeddings_vec,
                            documents |-> documents_vec,
                            uris |-> None,
                            metadatas |-> metadatas_vec],
                           verdict)
    IN  IF ~request.ok
        THEN Err(Fail(a, ValidationError, validationMsg, func_name,
                      Some(Fmt("Validation error: {:?}", <<request.e>>))))
        ELSE request

(* block_on(frontend.<fn>(request)) and the two ways it ends, for the      *)
(* operations that return nothing but the code (lines 232-252, 545-565,    *)
(* 772-792, 971-991)                                                       *)
execute(a, env, func_name, fn, request, engineMsg) ==
    LET invocation == Invoke(a.client_handle, fn, request)
    IN  IF env.engine.ok
        THEN Ret(Success, set_success(a.error_out), <<>>, <<invocation>>)
        ELSE [Fail(a, InternalError, engineMsg, func_name,
                   Some(Fmt("Error: {:?}", <<env.engine.e>>)))
                EXCEPT !.engine = <<invocation>>]

(* chroma_add up to the request it hands to the engine                     *)
add_request(a, verdict) ==
    LET func_name == "chroma_add"
        checked == check_mutation_args(a, func_name)
        ids_vec == decode_ids(a, func_name)
        embeddings_vec == decode_embeddings_add(a, func_name)
        metadatas_vec == decode_metadatas(a, func_name)
        documents_vec == decode_documents(a, func_name)
        collection_id == parse_collection_id(a, func_name)
    IN  IF ~checked.ok THEN checked
        ELSE IF ~ids_vec.ok THEN ids_vec
        ELSE IF ~embeddings_vec.ok THEN embeddings_vec
        ELSE IF ~metadatas_vec.ok THEN metadatas_vec
        ELSE IF ~documents_vec.ok THEN documents_vec
        ELSE IF ~collection_id.ok THEN collection_id
        ELSE mutation_request(a, verdict, func_name, "AddCollectionRecordsRequest",
                              ids_vec.v, embeddings_vec.v, documents_vec.v,
                              metadatas_vec.v, collection_id.v,
                              "Failed to create add request")

chroma_add(a, env) ==
    LET request == add_request(a, env.verdict)
    IN  IF ~request.ok THEN request.e
        ELSE execute(a, env, "chroma_add", "add", request.v, "Failed to add documents")

(* chroma_update up to the request it hands to the engine                  *)
update_request(a, verdict) ==
    LET func_name == "chroma_update"
        checked == check_mutation_args(a, func_name)
        ids_vec == decode_ids(a, func_name)
        embeddings_vec == decode_embeddings_update(a, func_name)
        metadatas_vec == decode_metadatas(a, func_name)
        documents_vec == decode_documents(a, func_name)
        collection_id == parse_collection_id(a, func_name)
    IN  IF ~checked.ok THEN checked
        ELSE IF ~ids_vec.ok THEN ids_vec
        ELSE IF ~embeddings_vec.ok THEN embeddings_vec
        ELSE IF ~metadatas_vec.ok THEN metadatas_vec
        ELSE IF ~documents_vec.ok THEN documents_vec
        ELSE IF ~collection_id.ok THEN collection_id
        ELSE mutation_request(a, verdict, func_name, "UpdateCollectionRecordsRequest",
                              ids_vec.v, embeddings_vec.v, documents_vec.v,
                              metadatas_vec.v, collection_id.v,
                              "Failed to create update request")

chroma_update(a, env) ==
    LET request == update_request(a, env.verdict)
    IN  IF ~request.ok THEN request.e
        ELSE execute(a, env, "chroma_update", "update", request.v,
                     "Failed to update documents")

(* chroma_upsert up to the request it hands to the engine                  *)
upsert_request(a, verdict) ==
    LET func_name == "chroma_upsert"
        checked == check_mutation_args(a, func_name)
        ids_vec == decode_ids(a, func_name)
        embeddings_vec == decode_embeddings_upsert(a, func_name)
        metadatas_vec == decode_metadatas(a, func_name)
        documents_vec == decode_documents(a, func_name)
        collection_id == parse_collection_id(a, func_name)
    IN  IF ~checked.ok THEN checked
        ELSE IF ~ids_vec.ok THEN ids_vec
        ELSE IF ~embeddings_vec.ok THEN embeddings_vec
        ELSE IF ~metadatas_vec.ok THEN metadatas_vec
        ELSE IF ~documents_vec.ok THEN documents_vec
        ELSE IF ~collection_id.ok THEN collection_id
        ELSE mutation_request(a, verdict, func_name, "UpsertCollectionRecordsRequest",
                              ids_vec.v, embeddings_vec.v, documents_vec.v,
                              metadatas_vec.v, collection_id.v,
                              "Failed to create upsert request")

chroma_upsert(a, env) ==
    LET request == upsert_request(a, env.verdict)
    IN  IF ~request.ok THEN request.e
        ELSE execute(a, env, "chroma_upsert", "upsert", request.v,
                     "Failed to upsert documents")

add(Args) ==
    /\ call = IdleCall
    /\ \E a \in Args, verdict \in Verdicts :
          \E env \in EnvReached(MutationEnv(verdict), add_request(a, verdict).ok) :
             call' = [op |-> "chroma_add", a |-> a, r |-> chroma_add(a, env)]
    /\ UNCHANGED <<clients, runtimes, collections>>


update(Args) ==
    /\ call = IdleCall
    /\ \E a \in Args, verdict \in Verdicts :
          \E env \in EnvReached(MutationEnv(verdict), update_request(a, verdict).ok) :
             call' = [op |-> "chroma_update", a |-> a, r |-> chroma_update(a, env)]
    /\ UNCHANGED <<clients, runtimes, collections>>


upsert(Args) ==
    /\ call = IdleCall
    /\ \E a \in Args, verdict \in Verdicts :
          \E env \in EnvReached(MutationEnv(verdict), upsert_request(a, verdict).ok) :
             call' = [op |-> "chroma_upsert", a |-> a, r |-> chroma_upsert(a, env)]
    /\ UNCHANGED <<clients, runtimes, collections>>


----------------------------------------------------------------------------
(* collection/operations.rs : chroma_count                                 *)
CountArgs ==
    [client_handle : ClientPtrs,
     collection_handle : CollectionPtrs,
     result : OutPtrs,
     error_out : OutPtrs]

CountEnv ==
    [verdict : Verdicts,
     engine : {Ok(0), Ok(3)} \cup {Err(e) : e \in EngineErrors}]

(* a count that reports an engine failure without its detail             *)
chroma_count_bare_failure(a, env) ==
    LET func_name == "chroma_count"
        collection == CollectionAt(a.collection_handle)
        collection_id == parse_collection_id(a, func_name)
        request == try_new("CountRequest",
                           [tenant |-> collection.tenant,
                            database |-> collection.database,
                            collection_id |-> collection_id.v],
                           env.verdict)
        invocation == Invoke(a.client_handle, "count", request.v)
    IN  IF a.client_handle = NULL \/ a.collection_handle = NULL \/ a.result = NULL
        THEN Fail(a, InvalidArgument,
                  IF a.client_handle = NULL THEN "Client handle pointer is null"
                  ELSE IF a.collection_handle = NULL
                       THEN "Collection handle pointer is null"
                  ELSE "Result pointer is null",
                  func_name, None)
        ELSE IF ~collection_id.ok THEN collection_id.e
        ELSE IF ~request.ok
        THEN Fail(a, ValidationError, "Failed to create count request", func_name,
                  Some(Fmt("Validation error: {:?}", <<request.e>>)))
        ELSE IF env.engine.ok
        THEN Ret(Success, set_success(a.error_out), <<env.engine.v>>, <<invocation>>)
        ELSE [Fail(a, InternalError, "Failed to count documents", func_name, None)
                EXCEPT !.engine = <<invocation>>]

chroma_count(a, env) ==
    LET func_name == "chroma_count"
        collection == CollectionAt(a.collection_handle)
        collection_id == parse_collection_id(a, func_name)
        request == try_new("CountRequest",
                           [tenant |-> collection.tenant,
                            database |-> collection.database,
                            collection_id |-> collection_id.v],
                           env.verdict)
        invocation == Invoke(a.client_handle, "count", request.v)
    IN  IF a.client_handle = NULL \/ a.collection_handle = NULL \/ a.result = NULL
        THEN Fail(a, InvalidArgument,
                  IF a.client_handle = NULL THEN "Client handle pointer is null"
                  ELSE IF a.collection_handle = NULL
                       THEN "Collection handle pointer is null"
                  ELSE "Result pointer is null",
                  func_name, None)
        ELSE IF ~collection_id.ok THEN collection_id.e
        ELSE IF ~request.ok
        THEN Fail(a, ValidationError, "Failed to create count request", func_name,
                  Some(Fmt("Validation error: {:?}", <<request.e>>)))
        ELSE IF env.engine.ok
        THEN Ret(Success, set_success(a.error_out), <<env.engine.v>>, <<invocation>>)
        ELSE [Fail(a, InternalError, "Failed to count documents", func_name,
                   Some(Fmt("Error: {:?}", <<env.engine.e>>)))
                EXCEPT !.engine = <<invocation>>]

count ==
    /\ call = IdleCall
    /\ \E a \in CountArgs, env \in CountEnv :
          call' = [op |-> "chroma_count", a |-> a, r |-> chroma_count(a, env)]
    /\ UNCHANGED <<clients, runtimes, collections>>

----------------------------------------------------------------------------
(* collection/operations.rs : where filters and include lists              *)
WhereStrings == {"{\"k\":1}", "not json", "{\"$bad\":1}"}
WhereDocumentStrings == {"{\"k\":1}"}

(* lines 861-933, 1056-1128, 1354-1426: Ok(Option<Where>) or the early     *)
(* return taken.  RawWhereFields::from_json_str rejects text that is not   *)
(* JSON, raw.parse() rejects JSON that is not a filter.                    *)
parse_where_filters(a, func_name) ==
    LET where_json_str == IF a.where_filter_json # NULL
                          THEN Some(c_str_to_string(a.where_filter_json).v)
                          ELSE None
        where_document == IF a.where_document_filter # NULL
                          THEN Some(c_str_to_string(a.where_document_filter).v)
                          ELSE None
        given == {x \in {where_json_str, where_document} : x.some}
    IN  IF where_json_str.some \/ where_document.some
        THEN IF \E x \in given : ~serde_json_from_str(x.v).ok
             THEN Err(Fail(a, ValidationError, "Failed to create where filters",
                           func_name,
                           Some(Fmt("Filter creation error: {:?}", <<"WhereError">>))))
             ELSE IF \E x \in given : x.v \in InvalidFilterStrings
             THEN Err(Fail(a, ValidationError, "Failed to parse where filters",
                           func_name,
                           Some(Fmt("Filter validation error: {:?}", <<"WhereError">>))))
             ELSE Ok(Some([where |-> where_json_str,
                           where_document |-> where_document]))
        ELSE Ok(None)

KnownIncludes == {"embeddings", "metadatas", "documents", "distances"}

(* IncludeList::try_from(Vec<String>)                                      *)
IncludeList_try_from(include) ==
    IF \A i \in DOMAIN include : include[i] \in KnownIncludes
    THEN Ok(include)
    ELSE Err(Fmt("{:?}", <<"IncludeParsingError">>))

(* an include list that leaves the embeddings out                          *)
push_if_not_embeddings(flag, name) ==
    IF flag /\ name # "embeddings" THEN <<name>> ELSE << >>

(* lines 1145-1155, 1428-1441: the names are pushed in a fixed order       *)
push_if(flag, name) == IF flag THEN <<name>> ELSE << >>

----------------------------------------------------------------------------
(* collection/operations.rs : chroma_delete                                *)
DeleteArgsOver(Clients, Collections, ErrorOuts, Ids, Wheres, WhereDocuments) ==
    UNION { [client_handle : Clients,
             collection_handle : Collections,
             ids : Ids[n],
             ids_count : {n},
             where_filter_json : Wheres,
             where_document_filter : WhereDocuments,
             error_out : ErrorOuts] : n \in DOMAIN Ids }

(* lines 840-859, 1035-1054: ids are read only when the pointer is non-null *)
(* and the count is positive                                               *)
(* a decoding that keeps an empty list of ids as a list                    *)
decode_optional_ids_keeps_empty(a, func_name) ==
    IF a.ids # NULL
    THEN LET v == c_array_to_vec_string(a.ids, a.ids_count)
         IN  IF v.ok THEN Ok(Some(v.v))
             ELSE Err(Fail(a, InvalidArgument, "Failed to convert IDs array",
                           func_name, Some(v.e)))
    ELSE Ok(None)

decode_optional_ids(a, func_name) ==
    IF a.ids # NULL /\ a.ids_count > 0
    THEN LET v == c_array_to_vec_string(a.ids, a.ids_count)
         IN  IF v.ok THEN Ok(Some(v.v))
             ELSE Err(Fail(a, InvalidArgument, "Failed to convert IDs array",
                           func_name, Some(v.e)))
    ELSE Ok(None)

(* a delete that does not ask for ids or a filter                          *)
delete_request_unchecked(a, verdict) ==
    LET func_name == "chroma_delete"
        collection == CollectionAt(a.collection_handle)
        ids_vec == decode_optional_ids(a, func_name)
        where_filter == parse_where_filters(a, func_name)
        collection_id == parse_collection_id(a, func_name)
        request == try_new("DeleteCollectionRecordsRequest",
                           [tenant |-> collection.tenant,
                            database |-> collection.database,
                            collection_id |-> collection_id.v,
                            ids |-> ids_vec.v,
                            where |-> where_filter.v],
                           verdict)
    IN  IF a.client_handle = NULL \/ a.collection_handle = NULL
        THEN Err(Fail(a, InvalidArgument,
                      IF a.client_handle = NULL THEN "Client handle pointer is null"
                      ELSE "Collection handle pointer is null",
                      func_name, None))
        ELSE IF ~ids_vec.ok THEN ids_vec
        ELSE IF ~where_filter.ok THEN where_filter
        ELSE IF ~collection_id.ok THEN collection_id
        ELSE IF ~request.ok
        THEN Err(Fail(a, ValidationError, "Failed to create delete request", func_name,
                      Some(Fmt("Validation error: {:?}", <<request.e>>))))
        ELSE request


(* chroma_delete up to the request it hands to the engine                  *)
delete_request(a, verdict) ==
    LET func_name == "chroma_delete"
        collection == CollectionAt(a.collection_handle)
        ids_vec == decode_optional_ids(a, func_name)
        where_filter == parse_where_filters(a, func_name)
        collection_id == parse_collection_id(a, func_name)
        request == try_new("DeleteCollectionRecordsRequest",
                           [tenant |-> collection.tenant,
                            database |-> collection.database,
                            collection_id |-> collection_id.v,
                            ids |-> ids_vec.v,
                            where |-> where_filter.v],
                           verdict)
    IN  IF a.client_handle = NULL \/ a.collection_handle = NULL
        THEN Err(Fail(a, InvalidArgument,
                      IF a.client_handle = NULL THEN "Client handle pointer is null"
                      ELSE "Collection handle pointer is null",
                      func_name, None))
        ELSE IF a.ids = NULL /\ a.where_filter_json = NULL
                /\ a.where_document_filter = NULL
        THEN Err(Fail(a, InvalidArgument,
                      "Either document IDs or filter criteria must be specified",
                      func_name, None))
        ELSE IF ~ids_vec.ok THEN ids_vec
        ELSE IF ~where_filter.ok THEN where_filter
        ELSE IF ~collection_id.ok THEN collection_id
        ELSE IF ~request.ok
        THEN Err(Fail(a, ValidationError, "Failed to create delete request", func_name,
                      Some(Fmt("Validation error: {:?}", <<request.e>>))))
        ELSE request

chroma_delete(a, env) ==
    LET request == delete_request(a, env.verdict)
    IN  IF ~request.ok THEN request.e
        ELSE execute(a, env, "chroma_delete", "delete", request.v,
                     "Failed to delete documents")

----------------------------------------------------------------------------
(* utils/mod.rs : outgoing arrays.  malloc_ok is the outcome of libc::malloc *)
(* an array builder that reports the row count after a failed malloc       *)
vec_string_to_c_array_keeps_count(strings, malloc_ok) ==
    IF Len(strings) = 0 THEN [array |-> NULL, count |-> 0]
    ELSE IF ~malloc_ok THEN [array |-> NULL, count |-> Len(strings)]
    ELSE [array |-> Ptr([i \in 1..Len(strings) |-> string_to_c_str(strings[i])]),
          count |-> Len(strings)]

vec_string_to_c_array(strings, malloc_ok) ==
    IF Len(strings) = 0 THEN [array |-> NULL, count |-> 0]
    ELSE IF ~malloc_ok THEN [array |-> NULL, count |-> 0]
    ELSE [array |-> Ptr([i \in 1..Len(strings) |-> string_to_c_str(strings[i])]),
          count |-> Len(strings)]

vec_f32_to_c_array(values, malloc_ok) ==
    IF Len(values) = 0 THEN [array |-> NULL, count |-> 0]
    ELSE IF ~malloc_ok THEN [array |-> NULL, count |-> 0]
    ELSE [array |-> Ptr([i \in 1..Len(values) |-> values[i]]),
          count |-> Len(values)]

(* serde_json::to_string(metadata).unwrap_or_default(): the JSON text of   *)
(* the metadata; a control character in a value is written as an escape    *)
serde_json_to_string(metadata) ==
    IF metadata.k \in NulStrings THEN "{\"k\":\"nul\\u0000inside\"}"
    ELSE "{\"k\":\"v\"}"

(* types/mod.rs : ChromaQueryResult as chroma_get / chroma_query box it    *)
EmptyQueryResult ==
    [ids |-> NULL, ids_count |-> 0,
     distances |-> NULL, distances_count |-> 0,
     metadata_json |-> NULL, metadata_count |-> 0,
     documents |-> NULL, documents_count |-> 0]

(* metadata rows written as their raw value, without JSON escaping         *)
metadata_strings_raw(rows) ==
    [i \in 1..Len(rows) |-> IF rows[i].some THEN rows[i].v.k ELSE ""]

(* operations.rs 1236-1251, 1534-1549: one string per metadata row         *)
metadata_strings(rows) ==
    [i \in 1..Len(rows) |->
        IF rows[i].some THEN serde_json_to_string(rows[i].v) ELSE ""]

(* operations.rs 1253-1265, 1551-1563: d.clone().unwrap_or_default()       *)
doc_strings(rows) ==
    [i \in 1..Len(rows) |-> IF rows[i].some THEN rows[i].v ELSE ""]

(* operations.rs 1214-1265, 1500-1563 with utils/mod.rs 55-73, 108-125:    *)
(* the allocations behind a Result Aggregate: the boxed struct, one malloc *)
(* per array that is not null, one CString per row that is not null        *)
QueryResult_allocations(result) ==
    LET strings(name, array, n) ==
            IF array = NULL THEN {}
            ELSE {Alloc(<<name>>, "libc::malloc")}
                 \cup {Alloc(<<name, i>>, "CString::into_raw") :
                         i \in {j \in 1..n : Deref(array)[j] # NULL}}
    IN  {Alloc(<<"result">>, "Box::into_raw")}
        \cup strings("ids", result.ids, result.ids_count)
        \cup (IF result.distances = NULL THEN {}
              ELSE {Alloc(<<"distances">>, "libc::malloc")})
        \cup strings("metadata_json", result.metadata_json, result.metadata_count)
        \cup strings("documents", result.documents, result.documents_count)

(* utils/mod.rs 38-52: the releases of chroma_free_string_array, in order  *)
chroma_free_string_array(name, array, n) ==
    IF array # NULL
    THEN LET rows == [i \in 1..n |->
                        Alloc(<<name, i>>,
                              IF Deref(array)[i] # NULL THEN "CString::from_raw"
                              ELSE "none")]
         IN  SelectSeq(rows, LAMBDA r : r.by # "none")
             \o <<Alloc(<<name>>, "libc::free")>>
    ELSE << >>

(* a release that leaves the documents array to the caller                 *)
chroma_free_query_result_no_documents(result) ==
    IF result # NULL
    THEN LET r == Deref(result)
         IN  chroma_free_string_array("ids", r.ids, r.ids_count)
             \o (IF r.distances # NULL
                 THEN <<Alloc(<<"distances">>, "libc::free")>> ELSE << >>)
             \o chroma_free_string_array("metadata_json", r.metadata_json,
                                         r.metadata_count)
             \o <<Alloc(<<"result">>, "libc::free")>>
    ELSE << >>

(* types/mod.rs 39-58: the releases of chroma_free_query_result, in order  *)
chroma_free_query_result(result) ==
    IF result # NULL
    THEN LET r == Deref(result)
         IN  chroma_free_string_array("ids", r.ids, r.ids_count)
             \o (IF r.distances # NULL
                 THEN <<Alloc(<<"distances">>, "libc::free")>> ELSE << >>)
             \o chroma_free_string_array("metadata_json", r.metadata_json,
                                         r.metadata_count)
             \o chroma_free_string_array("documents", r.documents, r.documents_count)
             \o <<Alloc(<<"result">>, "libc::free")>>
    ELSE << >>

----------------------------------------------------------------------------
(* Engine responses to get and query, and malloc outcomes                  *)
MaxResultRows == 2
ResultIds == <<"id1", "id2", "id3", "id4">>
EngineMetadata == {[k |-> "v"]} \cup {[k |-> s] : s \in NulStrings}
EngineDocuments == {"doc"} \cup NulStrings
EngineDistances == {7}

OptionOf(S) == {None} \cup {Some(v) : v \in S}
(* an optional column of k rows whose entries are all alike               *)
UniformColumn(k, S) == OptionOf({[i \in 1..k |-> v] : v \in OptionOf(S)})

GetResponses ==
    UNION { [ids : {SubSeq(ResultIds, 1, k)},
             metadatas : UniformColumn(k, EngineMetadata),
             documents : UniformColumn(k, EngineDocuments)] : k \in 0..MaxResultRows }

(* a query response has one row per query vector; the engine may also      *)
(* answer with no row at all, or with a second row and rows whose entries   *)
(* are not all alike                                                       *)
PerQuery(col) == IF col.some THEN {Some(<<col.v>>)} ELSE {None, Some(<< >>)}

QueryResponses ==
    UNION { UNION { [ids : {<<SubSeq(ResultIds, 1, k)>>},
                     distances : PerQuery(d),
                     metadatas : PerQuery(m),
                     documents : PerQuery(c)] :
                       d \in UniformColumn(k, EngineDistances),
                       m \in UniformColumn(k, EngineMetadata),
                       c \in UniformColumn(k, EngineDocuments) } : k \in 0..MaxResultRows }
    \cup {[ids |-> << >>, distances |-> None, metadatas |-> None, documents |-> None]}
    \cup UNION { { [ids |-> <<SubSeq(ResultIds, 1, 2), SubSeq(ResultIds, 3, 3)>>,
                    distances |-> Some(<<row, <<Some(v)>> >>),
                    metadatas |-> Some(<< <<None, Some([k |-> "v"])>>, <<None>> >>),
                    documents |-> Some(<< <<Some("doc"), None>>, <<None>> >>)] :
                      row \in {<<Some(v), None>>, <<None, Some(v)>>} } :
                  v \in EngineDistances }

(* the responses the engine gives in the specification of all entry       *)
(* points: nothing found, and every column filled with plain text          *)
SampleGetResponses ==
    {resp \in GetResponses :
        \/ Len(resp.ids) = 0 /\ ~resp.metadatas.some /\ ~resp.documents.some
        \/ /\ Len(resp.ids) = MaxResultRows
           /\ resp.metadatas.some /\ resp.documents.some
           /\ \A i \in 1..MaxResultRows :
                 /\ resp.metadatas.v[i] = Some([k |-> "v"])
                 /\ resp.documents.v[i] = Some("doc")}

SampleQueryResponses ==
    {resp \in QueryResponses :
        \/ resp.ids = << >>
        \/ /\ Len(resp.ids[1]) = MaxResultRows
           /\ resp.distances.some /\ resp.metadatas.some /\ resp.documents.some
           /\ Len(resp.distances.v) # 0 /\ Len(resp.metadatas.v) # 0
           /\ Len(resp.documents.v) # 0
           /\ \A i \in 1..MaxResultRows :
                 /\ resp.distances.v[1][i].some
                 /\ resp.metadatas.v[1][i] = Some([k |-> "v"])
                 /\ resp.documents.v[1][i] = Some("doc")}

(* each array is allocated on its own, and each allocation may fail        *)
MallocOutcomes ==
    [ids : BOOLEAN, distances : BOOLEAN, metadata : BOOLEAN, documents : BOOLEAN]
(* every allocation succeeds, or none does                                 *)
SampleMallocOutcomes ==
    {malloc \in MallocOutcomes :
        malloc.distances = malloc.ids /\ malloc.metadata = malloc.ids
        /\ malloc.documents = malloc.ids}

----------------------------------------------------------------------------
(* collection/operations.rs : chroma_get                                   *)
GetArgsOver(Clients, Collections, Results, ErrorOuts, Ids, Wheres, WhereDocuments, Limits, Flags) ==
    UNION { [client_handle : Clients,
             collection_handle : Collections,
             ids : Ids[n],
             ids_count : {n},
             where_filter_json : Wheres,
             where_document_filter : WhereDocuments,
             limit : Limits,
             offset : {0},
             include_embeddings : Flags,
             include_metadatas : Flags,
             include_documents : Flags,
             result : Results,
             error_out : ErrorOuts] : n \in DOMAIN Ids }

GetEnv(verdict, Responses, Mallocs) ==
    [verdict : {verdict},
     engine : {Ok(resp) : resp \in Responses} \cup {Err(e) : e \in EngineErrors},
     malloc : Mallocs]

(* lines 1214-1265: the Result Aggregate of a get response                 *)
materialize_get(get_response, malloc) ==
    LET ids == IF Len(get_response.ids) # 0
               THEN vec_string_to_c_array(get_response.ids, malloc.ids)
               ELSE [array |-> NULL, count |-> 0]
        metadata == IF get_response.metadatas.some
                       /\ Len(get_response.metadatas.v) # 0
                    THEN vec_string_to_c_array(
                             metadata_strings(get_response.metadatas.v), malloc.metadata)
                    ELSE [array |-> NULL, count |-> 0]
        documents == IF get_response.documents.some
                        /\ Len(get_response.documents.v) # 0
                     THEN vec_string_to_c_array(
                              doc_strings(get_response.documents.v), malloc.documents)
                     ELSE [array |-> NULL, count |-> 0]
    IN  [EmptyQueryResult EXCEPT
            !.ids = ids.array, !.ids_count = ids.count,
            !.metadata_json = metadata.array, !.metadata_count = metadata.count,
            !.documents = documents.array, !.documents_count = documents.count]

(* chroma_get up to the request it hands to the engine                     *)
get_request(a, verdict) ==
    LET func_name == "chroma_get"
        collection == CollectionAt(a.collection_handle)
        ids_vec == decode_optional_ids(a, func_name)
        where_filter == parse_where_filters(a, func_name)
        collection_id == parse_collection_id(a, func_name)
        include == push_if(a.include_embeddings, "embeddings")
                   \o push_if(a.include_metadatas, "metadatas")
                   \o push_if(a.include_documents, "documents")
        include_list == IncludeList_try_from(include)
        request == try_new("GetRequest",
                           [tenant |-> collection.tenant,
                            database |-> collection.database,
                            collection_id |-> collection_id.v,
                            ids |-> ids_vec.v,
                            where |-> where_filter.v,
                            limit |-> IF a.limit > 0 THEN Some(a.limit) ELSE None,
                            offset |-> a.offset,
                            include |-> include_list.v],
                           verdict)
    IN  IF a.client_handle = NULL \/ a.collection_handle = NULL \/ a.result = NULL
        THEN Err(Fail(a, InvalidArgument,
                      IF a.client_handle = NULL THEN "Client handle pointer is null"
                      ELSE IF a.collection_handle = NULL
                           THEN "Collection handle pointer is null"
                      ELSE "Result pointer is null",
                      func_name, None))
        ELSE IF ~ids_vec.ok THEN ids_vec
        ELSE IF ~where_filter.ok THEN where_filter
        ELSE IF ~collection_id.ok THEN collection_id
        ELSE IF ~include_list.ok
        THEN Err(Fail(a, ValidationError, "Invalid include list", func_name,
                      Some(Fmt("Include list validation error: {:?}",
                               <<include_list.e>>))))
        ELSE IF ~request.ok
        THEN Err(Fail(a, ValidationError, "Failed to create get request", func_name,
                      Some(Fmt("Validation error: {:?}", <<request.e>>))))
        ELSE request

chroma_get(a, env) ==
    LET func_name == "chroma_get"
        request == get_request(a, env.verdict)
        invocation == Invoke(a.client_handle, "get", request.v)
    IN  IF ~request.ok THEN request.e
        ELSE IF ~env.engine.ok
        THEN [Fail(a, InternalError, "Failed to get documents", func_name,
                   Some(Fmt("Error: {:?}", <<env.engine.e>>)))
                EXCEPT !.engine = <<invocation>>]
        ELSE Ret(Success, set_success(a.error_out),
                 <<Ptr(materialize_get(env.engine.v, env.malloc))>>, <<invocation>>)

----------------------------------------------------------------------------
(* collection/operations.rs : chroma_query                                 *)
QueryDims == {0, 2}

QueryArgsOver(Clients, Collections, Results, ErrorOuts, Embeddings, Dims, Wheres, WhereDocuments, Flags) ==
    [client_handle : Clients,
     collection_handle : Collections,
     query_embeddings : Embeddings,
     embedding_dim : Dims,
     n_results : {1},
     where_filter_json : Wheres,
     where_document_filter : WhereDocuments,
     include_embeddings : Flags,
     include_metadatas : Flags,
     include_documents : Flags,
     include_distances : Flags,
     result : Results,
     error_out : ErrorOuts]

QueryEnv(verdict, Responses, Mallocs) ==
    [verdict : {verdict},
     engine : {Ok(resp) : resp \in Responses} \cup {Err(e) : e \in EngineErrors},
     malloc : Mallocs]

(* a materializer that leaves the absent distances out                    *)
materialize_query_drops_absent(query_response, malloc) ==
    LET Empty == [array |-> NULL, count |-> 0]
        ids == IF Len(query_response.ids) # 0
               THEN vec_string_to_c_array(query_response.ids[1], malloc.ids)
               ELSE Empty
        distances ==
            IF query_response.distances.some
               /\ Len(query_response.distances.v) # 0
               /\ Len(query_response.distances.v[1]) # 0
            THEN LET row == query_response.distances.v[1]
                     Present(d) == d.some
                     present == SelectSeq(row, Present)
                 IN  vec_f32_to_c_array(
                         [i \in 1..Len(present) |-> present[i].v],
                         malloc.distances)
            ELSE Empty
        metadata ==
            IF query_response.metadatas.some /\ Len(query_response.metadatas.v) # 0
            THEN vec_string_to_c_array(
                     metadata_strings(query_response.metadatas.v[1]), malloc.metadata)
            ELSE Empty
        documents ==
            IF query_response.documents.some /\ Len(query_response.documents.v) # 0
            THEN vec_string_to_c_array(
                     doc_strings(query_response.documents.v[1]), malloc.documents)
            ELSE Empty
    IN  [ids |-> ids.array, ids_count |-> ids.count,
         distances |-> distances.array, distances_count |-> distances.count,
         metadata_json |-> metadata.array, metadata_count |-> metadata.count,
         documents |-> documents.array, documents_count |-> documents.count]

(* lines 1500-1563: the Result Aggregate of a query response               *)
materialize_query(query_response, malloc) ==
    LET Empty == [array |-> NULL, count |-> 0]
        ids == IF Len(query_response.ids) # 0
               THEN vec_string_to_c_array(query_response.ids[1], malloc.ids)
               ELSE Empty
        distances ==
            IF query_response.distances.some
               /\ Len(query_response.distances.v) # 0
               /\ Len(query_response.distances.v[1]) # 0
            THEN LET row == query_response.distances.v[1]
                 IN  vec_f32_to_c_array(
                         [i \in 1..Len(row) |-> IF row[i].some THEN row[i].v ELSE 0],
                         malloc.distances)
            ELSE Empty
        metadata ==
            IF query_response.metadatas.some /\ Len(query_response.metadatas.v) # 0
            THEN vec_string_to_c_array(
                     metadata_strings(query_response.metadatas.v[1]), malloc.metadata)
            ELSE Empty
        documents ==
            IF query_response.documents.some /\ Len(query_response.documents.v) # 0
            THEN vec_string_to_c_array(
                     doc_strings(query_response.documents.v[1]), malloc.documents)
            ELSE Empty
    IN  [ids |-> ids.array, ids_count |-> ids.count,
         distances |-> distances.array, distances_count |-> distances.count,
         metadata_json |-> metadata.array, metadata_count |-> metadata.count,
         documents |-> documents.array, documents_count |-> documents.count]

(* a dimension check that only refuses the empty vector                    *)
dimension_check_empty_only(a, query_embedding_vec, func_name) ==
    IF Len(query_embedding_vec[1]) = 0
    THEN Err(Fail(a, InvalidArgument, "Invalid query embedding", func_name,
                  Some(Fmt("Expected dimension {}, got {}",
                           <<a.embedding_dim, Len(query_embedding_vec[1])>>))))
    ELSE Ok(query_embedding_vec)

(* lines 1339-1352: the decoded vector against the declared dimension      *)
dimension_check(a, query_embedding_vec, func_name) ==
    IF Len(query_embedding_vec[1]) = 0
       \/ Len(query_embedding_vec[1]) # a.embedding_dim
    THEN Err(Fail(a, InvalidArgument, "Invalid query embedding", func_name,
                  Some(Fmt("Expected dimension {}, got {}",
                           <<a.embedding_dim, Len(query_embedding_vec[1])>>))))
    ELSE Ok(query_embedding_vec)

(* lines 1337-1352: the query embedding is decoded with the declared       *)
(* dimension as its length, then checked                                   *)
check_query_embedding(a, func_name) ==
    dimension_check(a, <<c_array_to_vec_f32(a.query_embeddings, a.embedding_dim)>>,
                    func_name)

(* chroma_query up to the request it hands to the engine                   *)
query_request(a, verdict) ==
    LET func_name == "chroma_query"
        collection == CollectionAt(a.collection_handle)
        collection_id == parse_collection_id(a, func_name)
        query_embedding_vec == check_query_embedding(a, func_name)
        where_filter == parse_where_filters(a, func_name)
        include == push_if(a.include_embeddings, "embeddings")
                   \o push_if(a.include_metadatas, "metadatas")
                   \o push_if(a.include_documents, "documents")
                   \o push_if(a.include_distances, "distances")
        include_list == IncludeList_try_from(include)
        request == try_new("QueryRequest",
                           [tenant |-> collection.tenant,
                            database |-> collection.database,
                            collection_id |-> collection_id.v,
                            ids |-> None,
                            where |-> where_filter.v,
                            embeddings |-> query_embedding_vec.v,
                            n_results |-> a.n_results,
                            include |-> include_list.v],
                           verdict)
    IN  IF a.client_handle = NULL \/ a.collection_handle = NULL
           \/ a.query_embeddings = NULL \/ a.result = NULL
        THEN Err(Fail(a, InvalidArgument,
                      IF a.client_handle = NULL THEN "Client handle pointer is null"
                      ELSE IF a.collection_handle = NULL
                           THEN "Collection handle pointer is null"
                      ELSE IF a.query_embeddings = NULL
                           THEN "Query embeddings pointer is null"
                      ELSE "Result pointer is null",
                      func_name, None))
        ELSE IF ~collection_id.ok THEN collection_id
        ELSE IF ~query_embedding_vec.ok THEN query_embedding_vec
        ELSE IF ~where_filter.ok THEN where_filter
        ELSE IF ~include_list.ok
        THEN Err(Fail(a, ValidationError, "Invalid include list", func_name,
                      Some(Fmt("Include list validation error: {:?}",
                               <<include_list.e>>))))
        ELSE IF ~request.ok
        THEN Err(Fail(a, ValidationError, "Failed to create query request", func_name,
                      Some(Fmt("Validation error: {:?}", <<request.e>>))))
        ELSE request

chroma_query(a, env) ==
    LET func_name == "chroma_query"
        request == query_request(a, env.verdict)
        invocation == Invoke(a.client_handle, "query", request.v)
    IN  IF ~request.ok THEN request.e
        ELSE IF ~env.engine.ok
        THEN [Fail(a, InternalError, "Failed to execute query", func_name,
                   Some(Fmt("Error: {:?}", <<env.engine.e>>)))
                EXCEPT !.engine = <<invocation>>]
        ELSE Ret(Success, set_success(a.error_out),
                 <<Ptr(materialize_query(env.engine.v, env.malloc))>>, <<invocation>>)

----------------------------------------------------------------------------
(* The actions of delete, get and query                                    *)
QueryEmbeddingPtrs == {NULL} \cup {Ptr(b) : b \in FloatBuffers}

(* every handle and pointer with one valid request, and the handles that   *)
(* pass the null checks with every request                                 *)
DeleteArgs ==
    DeleteArgsOver(ClientPtrs, CollectionPtrs, OutPtrs,
                   PlainRowArrays(IdStrings), {NULL}, {NULL})
    \cup
    DeleteArgsOver(LiveClientPtrs, CollectionPtrs \ {NULL}, OutPtrs,
                   UniformRowArrays(IdStrings), StrPtrs(WhereStrings), StrPtrs(WhereDocumentStrings))

GetArgs ==
    GetArgsOver(ClientPtrs, CollectionPtrs, OutPtrs, OutPtrs,
                PlainRowArrays(IdStrings), {NULL}, {NULL}, {0}, {TRUE})
    \cup
    GetArgsOver(LiveClientPtrs, CollectionPtrs \ {NULL}, OutPtrs \ {NULL}, OutPtrs,
                UniformRowArrays(IdStrings), StrPtrs(WhereStrings), StrPtrs(WhereDocumentStrings),
                {0, 5}, BOOLEAN)

QueryArgs ==
    QueryArgsOver(ClientPtrs, CollectionPtrs, OutPtrs, OutPtrs,
                  QueryEmbeddingPtrs, {2}, {NULL}, {NULL}, {TRUE})
    \cup
    QueryArgsOver(LiveClientPtrs, CollectionPtrs \ {NULL}, OutPtrs \ {NULL}, OutPtrs,
                  QueryEmbeddingPtrs \ {NULL}, QueryDims, StrPtrs(WhereStrings),
                  StrPtrs(WhereDocumentStrings), BOOLEAN)

(* valid handles, every combination of id rows                             *)
RowDeleteArgs ==
    DeleteArgsOver(LiveClientPtrs, LiveCollectionPtrs, OutPtrs \ {NULL},
                   RowArrays(IdStrings), StrPtrs(WhereStrings), StrPtrs(WhereDocumentStrings))
RowGetArgs ==
    GetArgsOver(LiveClientPtrs, LiveCollectionPtrs, OutPtrs \ {NULL}, OutPtrs \ {NULL},
                RowArrays(IdStrings), StrPtrs(WhereStrings), StrPtrs(WhereDocumentStrings), {0}, {TRUE})

delete(Args) ==
    /\ call = IdleCall
    /\ \E a \in Args, verdict \in Verdicts :
          \E env \in EnvReached(MutationEnv(verdict), delete_request(a, verdict).ok) :
             call' = [op |-> "chroma_delete", a |-> a, r |-> chroma_delete(a, env)]
    /\ UNCHANGED <<clients, runtimes, collections>>

get(Args, Responses, Mallocs) ==
    /\ call = IdleCall
    /\ \E a \in Args, verdict \in Verdicts :
          \E env \in EnvReached(GetEnv(verdict, Responses, Mallocs), get_request(a, verdict).ok) :
             call' = [op |-> "chroma_get", a |-> a, r |-> chroma_get(a, env)]
    /\ UNCHANGED <<clients, runtimes, collections>>

query(Args, Responses, Mallocs) ==
    /\ call = IdleCall
    /\ \E a \in Args, verdict \in Verdicts :
          \E env \in EnvReached(QueryEnv(verdict, Responses, Mallocs),
                                query_request(a, verdict).ok) :
             call' = [op |-> "chroma_query", a |-> a, r |-> chroma_query(a, env)]
    /\ UNCHANGED <<clients, runtimes, collections>>


----------------------------------------------------------------------------
(* The caller releases what the call that returned handed to it: the Error *)
(* Object through chroma_free_error, the Result Aggregate through          *)
(* chroma_free_query_result; each object is released once at most.         *)
Released(obj) == \E i \in 1..Len(call.r.freed) : call.r.freed[i].obj = obj

free_error ==
    /\ call # IdleCall
    /\ call.op \in {"chroma_get", "chroma_query"}
    /\ call.r.errs # << >>
    /\ ~Released(<<"error">>)
    /\ \E error \in {NULL, Ptr(call.r.errs[1])} :
          call' = [call EXCEPT !.r.freed = @ \o chroma_free_error(error)]
    /\ UNCHANGED <<clients, runtimes, collections>>

free_query_result ==
    /\ call # IdleCall
    /\ call.op \in {"chroma_get", "chroma_query"}
    /\ call.r.outw # << >>
    /\ ~Released(<<"result">>)
    /\ \E result \in {NULL, call.r.outw[1]} :
          call' = [call EXCEPT !.r.freed = @ \o chroma_free_query_result(result)]
    /\ UNCHANGED <<clients, runtimes, collections>>

----------------------------------------------------------------------------
(* The caller takes the results of the call that returned                  *)
Return ==
    /\ call # IdleCall
    /\ call' = IdleCall
    /\ UNCHANGED <<clients, runtimes, collections>>

Init ==
    /\ clients = << >>
    /\ runtimes = {}
    /\ collections = << >>
    /\ call = IdleCall

Next ==
    \/ create_client
    \/ destroy_client
    \/ heartbeat
    \/ create_database
    \/ get_database
    \/ delete_database
    \/ create_collection
    \/ get_collection
    \/ destroy_collection
    \/ add(MutationArgs)
    \/ count
    \/ update(MutationArgs)
    \/ upsert(MutationArgs)
    \/ delete(DeleteArgs)
    \/ get(GetArgs, SampleGetResponses, SampleMallocOutcomes)
    \/ query(QueryArgs, SampleQueryResponses, SampleMallocOutcomes)
    \/ Return

Spec == Init /\ [][Next]_vars

(* The per-row behaviour of the translators: a client and a collection     *)
(* created with the default tenant and database are live, and the          *)
(* operations that take row arrays are called with every combination of    *)
(* rows.                                                                   *)
InitRows ==
    /\ clients = (1 :> [runtime |-> 1, frontend |-> 1])
    /\ runtimes = {1}
    /\ collections = (1 :> [id |-> CHOOSE u \in ValidUuidStrings : TRUE,
                            tenant |-> DEFAULT_TENANT,
                            database |-> DEFAULT_DATABASE])
    /\ call = IdleCall

NextRows ==
    \/ add(RowMutationArgs)
    \/ update(RowMutationArgs)
    \/ upsert(RowMutationArgs)
    \/ delete(RowDeleteArgs)
    \/ get(RowGetArgs, SampleGetResponses, SampleMallocOutcomes)
    \/ Return

SpecRows == InitRows /\ [][NextRows]_vars

(* The dimension check of query: the check is applied to every decoded     *)
(* vector and declared dimension, and query is called with every           *)
(* dimension its buffer holds.                                             *)
MaxDim == 3
FloatValues == {10, 20}
DecodedVectors == UNION { [1..n -> FloatValues] : n \in 0..MaxDim }
DimensionArgs ==
    [query_embedding_vec : {<<vec>> : vec \in DecodedVectors},
     embedding_dim : 0..MaxDim,
     error_out : OutPtrs]
DimQueryArgs ==
    QueryArgsOver(LiveClientPtrs, LiveCollectionPtrs, OutPtrs \ {NULL}, OutPtrs,
                  QueryEmbeddingPtrs \ {NULL}, {0, 1, 2, 3}, {NULL}, {NULL}, {TRUE})

check_dimension ==
    /\ call = IdleCall
    /\ \E a \in DimensionArgs :
          call' = [op |-> "dimension_check", a |-> a,
                   r |-> dimension_check(a, a.query_embedding_vec, "chroma_query")]
    /\ UNCHANGED <<clients, runtimes, collections>>

NextDim ==
    \/ check_dimension
    \/ query(DimQueryArgs, SampleQueryResponses, SampleMallocOutcomes)
    \/ Return

SpecDim == InitRows /\ [][NextDim]_vars

(* The Result Aggregate: get and query are called with valid arguments,    *)
(* the engine answers with every response and every allocation may fail;   *)
(* the caller then releases what it was handed.  The materializer is also  *)
(* applied on its own, so that a state holds a response next to the        *)
(* aggregate made from it.                                                 *)
materialize ==
    /\ call = IdleCall
    /\ \E malloc \in MallocOutcomes :
          \/ \E resp \in GetResponses :
                call' = [op |-> "materialize_get",
                         a |-> [response |-> resp, malloc |-> malloc],
                         r |-> materialize_get(resp, malloc)]
          \/ \E resp \in QueryResponses :
                call' = [op |-> "materialize_query",
                         a |-> [response |-> resp, malloc |-> malloc],
                         r |-> materialize_query(resp, malloc)]
    /\ UNCHANGED <<clients, runtimes, collections>>

NextResults ==
    \/ get(GetArgsOver(LiveClientPtrs, LiveCollectionPtrs, OutPtrs \ {NULL}, OutPtrs,
                       PlainRowArrays(IdStrings), {NULL}, {NULL}, {0}, {TRUE}),
           GetResponses, MallocOutcomes)
    \/ query(QueryArgsOver(LiveClientPtrs, LiveCollectionPtrs, OutPtrs \ {NULL},
                           OutPtrs, QueryEmbeddingPtrs \ {NULL}, {2}, {NULL},
                           {NULL}, {TRUE}),
             QueryResponses, MallocOutcomes)
    \/ materialize
    \/ free_error
    \/ free_query_result
    \/ Return

SpecResults == InitRows /\ [][NextResults]_vars

----------------------------------------------------------------------------
(* Properties of the error protocol                                        *)

(* the entry points that take an error out-parameter: all of them but      *)
(* chroma_destroy_collection                                               *)
ErrorOutOps ==
    {"chroma_create_client", "chroma_destroy_client", "chroma_heartbeat",
     "chroma_create_database", "chroma_get_database", "chroma_delete_database",
     "chroma_create_collection", "chroma_get_collection", "chroma_add",
     "chroma_count", "chroma_update", "chroma_upsert", "chroma_delete",
     "chroma_get", "chroma_query"}

Returned == call # IdleCall

(* C1: every entry point that takes an error out-parameter stores exactly  *)
(* one Error Object through it on every path when the pointer is non-null, *)
(* and stores nothing when it is null.                                     *)
C1_OneErrorObject ==
    Returned /\ call.op \in ErrorOutOps =>
        Len(call.r.errs) = IF call.a.error_out # NULL THEN 1 ELSE 0

(* a failing call and its one Error Object                                 *)
C1_Witness ==
    /\ Returned
    /\ call.op = "chroma_get"
    /\ call.a.error_out # NULL
    /\ call.r.rc = InternalError
    /\ Len(call.r.errs) = 1

(* C2: the code a call returns is the code stored in the Error Object it   *)
(* wrote.                                                                  *)
C2_ReturnCodeIsStoredCode ==
    Returned => \A i \in 1..Len(call.r.errs) : call.r.errs[i].code = call.r.rc

(* a call that returned NotFound and stored NotFound                       *)
C2_Witness ==
    /\ Returned
    /\ call.op = "chroma_get_database"
    /\ call.r.rc = NotFound
    /\ Len(call.r.errs) = 1
    /\ call.r.errs[1].code = NotFound

(* C3: a call that fails stores nothing through its output parameter, so   *)
(* the caller's initial value stays; outputs are written on Success only.  *)
C3_OutputsOnlyOnSuccess ==
    Returned /\ call.r.rc # Success => call.r.outw = << >>

(* a query that failed in the engine with a result pointer to write to     *)
C3_Witness ==
    /\ Returned
    /\ call.op = "chroma_query"
    /\ call.a.result # NULL
    /\ call.r.rc = InternalError
    /\ call.r.engine # << >>
    /\ call.r.outw = << >>

(* the codes of a failure found before the engine is asked                 *)
LocalFailureCodes == {InvalidArgument, InvalidUuid, ValidationError}

(* C4: a call that returns InvalidArgument, InvalidUuid or ValidationError *)
(* made no engine invocation, and a call that made one passed every local  *)
(* check: it ends in Success or in the engine's own failure.               *)
C4_EngineAfterValidation ==
    Returned =>
        /\ call.r.rc \in LocalFailureCodes => call.r.engine = << >>
        /\ call.r.engine # << >> => call.r.rc \in {Success, InternalError, NotFound}

(* a handle whose id is not a UUID is refused before the engine is asked   *)
C4_Witness ==
    /\ Returned
    /\ call.op = "chroma_delete"
    /\ call.r.rc = InvalidUuid
    /\ call.r.engine = << >>

----------------------------------------------------------------------------
(* Properties of the request translators                                   *)

ValidHandles ==
    /\ call.a.client_handle \in LiveClientPtrs
    /\ call.a.collection_handle \in LiveCollectionPtrs

NoSelector ==
    /\ call.a.ids = NULL
    /\ call.a.where_filter_json = NULL
    /\ call.a.where_document_filter = NULL

NullRows(array, n) ==
    IF array = NULL THEN {} ELSE {i \in 1..n : Deref(array)[i] = NULL}

(* the rows of an update as the specification expects them forwarded       *)
ForwardedRows(a) ==
    [i \in 1..a.ids_count |->
        IF Deref(a.embeddings)[i] = NULL THEN None
        ELSE Some(SubSeq(Deref(Deref(a.embeddings)[i]), 1, a.embedding_dim))]

NullEmbeddingRow ==
    /\ call.a.ids # NULL
    /\ call.a.ids_count > 0
    /\ NullRows(call.a.embeddings, call.a.ids_count) # {}

(* C6 as the specification states it: in update and upsert a null          *)
(* embedding row under a non-null base does not fail the call.             *)
C6_Original ==
    Returned /\ call.op \in {"chroma_update", "chroma_upsert"} /\ NullEmbeddingRow
    => call.r.rc # InvalidArgument

(* C6: in update a null embedding row under a non-null base does not fail  *)
(* the call, and the engine receives no embedding for that row and the     *)
(* decoded embedding for every other row; in upsert the same row fails the *)
(* call with InvalidArgument, the detail names the first such row, and the *)
(* engine is not invoked.                                                  *)
C6_NullEmbeddingRow ==
    Returned /\ call.op \in {"chroma_update", "chroma_upsert"} /\ NullEmbeddingRow
    => /\ call.op = "chroma_update" =>
            /\ call.r.rc # InvalidArgument
            /\ call.r.engine # << >> =>
                 call.r.engine[1].req.fields.embeddings = Some(ForwardedRows(call.a))
       /\ call.op = "chroma_upsert" =>
            /\ call.r.rc = InvalidArgument
            /\ call.r.engine = << >>
            /\ call.r.errs[1].message = Ptr("Embedding pointer is null")
            /\ call.r.errs[1].details =
                 Ptr(Fmt("Null embedding at index {}",
                         <<Least(NullRows(call.a.embeddings, call.a.ids_count)) - 1>>))

(* an update of two rows, the first with an embedding and the second       *)
(* without, that the engine accepted                                       *)
C6_Witness ==
    /\ Returned
    /\ call.op = "chroma_update"
    /\ call.a.ids_count = 2
    /\ NullRows(call.a.ids, 2) = {}
    /\ NullRows(call.a.embeddings, 2) = {2}
    /\ call.r.rc = Success
    /\ call.r.engine[1].req.fields.embeddings.v[2] = None
    /\ call.r.engine[1].req.fields.embeddings.v[1].some

(* C7: add fails with InvalidArgument and does not invoke the engine when  *)
(* the embeddings base pointer is null, and when the base is non-null and  *)
(* the embedding pointer of some row below ids_count is null.              *)
C7_AddRequiresEmbeddings ==
    /\ Returned
    /\ call.op = "chroma_add"
    /\ \/ call.a.embeddings = NULL
       \/ NullRows(call.a.embeddings, call.a.ids_count) # {}
    => call.r.rc = InvalidArgument /\ call.r.engine = << >>

(* an add whose ids are all given and whose second row has no embedding    *)
C7_Witness ==
    /\ Returned
    /\ call.op = "chroma_add"
    /\ call.a.ids_count = 2
    /\ call.a.ids # NULL
    /\ NullRows(call.a.ids, 2) = {}
    /\ NullRows(call.a.embeddings, 2) = {2}
    /\ call.r.rc = InvalidArgument
    /\ call.r.errs[1].message = Ptr("Embedding pointer is null")

RowOps == {"chroma_add", "chroma_update", "chroma_upsert", "chroma_get", "chroma_delete"}

(* C8 as the specification states it: in add, update, upsert, get and      *)
(* delete a null id row within a non-null ids array of positive count      *)
(* fails the call with InvalidArgument.                                    *)
C8_Original ==
    /\ Returned
    /\ call.op \in RowOps
    /\ call.a.ids_count > 0
    /\ NullRows(call.a.ids, call.a.ids_count) # {}
    => call.r.rc = InvalidArgument

(* an add with a null id row that succeeded: the engine received the empty *)
(* string as that row's id                                                 *)
C8_Witness ==
    /\ Returned
    /\ call.op = "chroma_add"
    /\ call.a.ids_count = 1
    /\ NullRows(call.a.ids, 1) = {1}
    /\ call.r.rc = Success
    /\ call.r.engine[1].req.fields.ids = <<"">>

BadSelectors(config) ==
    config.hash_type \notin {0, 1} \/ config.migration_mode \notin {0, 1}

(* the detail of the selector the parser refuses first                     *)
SelectorDetail(config) ==
    IF config.hash_type \notin {0, 1}
    THEN Fmt("Got {}, expected 0 (SHA256) or 1 (MD5)", <<config.hash_type>>)
    ELSE Fmt("Got {}, expected 0 (Apply) or 1 (Validate)", <<config.migration_mode>>)

----------------------------------------------------------------------------
(* Properties of the Result Aggregate and of the releases                  *)

(* a get or query that returned Success stored a Result Aggregate          *)
HasAggregate ==
    Returned /\ call.op \in {"chroma_get", "chroma_query"} /\ call.r.rc = Success
Aggregate == Deref(call.r.outw[1])
ArrayPairs(result) ==
    << <<result.ids, result.ids_count>>,
       <<result.distances, result.distances_count>>,
       <<result.metadata_json, result.metadata_count>>,
       <<result.documents, result.documents_count>> >>

(* C11: in every Result Aggregate that get or query returns, each array    *)
(* has count 0 exactly when its pointer is null, whatever the engine       *)
(* answered and whichever allocation failed.                               *)
C11_CountZeroIffNull ==
    HasAggregate =>
        \A k \in 1..4 :
            LET pair == ArrayPairs(Aggregate)[k]
            IN  (pair[2] = 0) <=> (pair[1] = NULL)

(* a query whose ids array could not be allocated: (null, 0) next to a     *)
(* metadata array that holds rows                                          *)
C11_Witness ==
    /\ HasAggregate
    /\ call.op = "chroma_query"
    /\ Aggregate.ids = NULL /\ Aggregate.ids_count = 0
    /\ Aggregate.metadata_json # NULL /\ Aggregate.metadata_count = MaxResultRows

(* the allocator behind a routine: Box and CString take from and return    *)
(* to the Rust global allocator, malloc and free are the C library's       *)
Family(by) == IF by \in {"libc::malloc", "libc::free"} THEN "libc" ELSE "rust"

(* what the returned call allocated for the caller                         *)
HandedOver ==
    (IF call.r.errs # << >> THEN ChromaError_allocations(call.r.errs[1]) ELSE {})
    \cup (IF call.r.outw # << >> THEN QueryResult_allocations(Aggregate) ELSE {})
Releases(obj) == {i \in 1..Len(call.r.freed) : call.r.freed[i].obj = obj}

(* C12 as stated: every object handed to the caller is released by the     *)
(* allocator family that allocated it.                                     *)
C12_Original ==
    Returned /\ call.op \in {"chroma_get", "chroma_query"} =>
        \A al \in HandedOver : \A i \in Releases(al.obj) :
            Family(call.r.freed[i].by) = Family(al.by)

(* an Error Object that chroma_free_error has released                     *)
C12_Witness ==
    /\ Returned
    /\ call.op = "chroma_get"
    /\ call.r.rc = InternalError
    /\ Released(<<"error">>)

(* C14: chroma_free_query_result on the aggregate a get or query returned  *)
(* passes every allocation made for it (each string, each array, the       *)
(* struct) to a release routine exactly once, and releases nothing else.   *)
C14_ReleasedExactlyOnce ==
    HasAggregate /\ Released(<<"result">>) =>
        /\ \A al \in QueryResult_allocations(Aggregate) :
              Cardinality(Releases(al.obj)) = 1
        /\ \A i \in 1..Len(call.r.freed) :
              call.r.freed[i].obj[1] # "error" =>
                 \E al \in QueryResult_allocations(Aggregate) :
                    al.obj = call.r.freed[i].obj

(* a released aggregate with an ids array, a distances array and a         *)
(* documents array whose rows are null                                     *)
C14_Witness ==
    /\ HasAggregate
    /\ call.op = "chroma_query"
    /\ Released(<<"result">>)
    /\ Aggregate.ids_count = MaxResultRows
    /\ Aggregate.distances # NULL
    /\ Aggregate.documents # NULL
    /\ \A i \in 1..Aggregate.documents_count : Deref(Aggregate.documents)[i] = NULL

(* C18 as stated: every array of the aggregate whose count is not zero has *)
(* the count of the ids array.                                             *)
C18_Original ==
    HasAggregate =>
        \A k \in 1..4 :
            LET pair == ArrayPairs(Aggregate)[k]
            IN  pair[2] # 0 => pair[2] = Aggregate.ids_count

(* an aggregate with metadata rows and no ids                              *)
C18_Witness ==
    /\ HasAggregate
    /\ call.op = "chroma_get"
    /\ Aggregate.ids_count = 0
    /\ Aggregate.metadata_count = MaxResultRows

(* the metadata rows of the response the materializer was given            *)
MetadataRows ==
    IF call.op = "materialize_get"
    THEN (IF call.a.response.metadatas.some THEN call.a.response.metadatas.v ELSE << >>)
    ELSE IF call.a.response.metadatas.some /\ Len(call.a.response.metadatas.v) # 0
    THEN call.a.response.metadatas.v[1]
    ELSE << >>

(* C19: when the aggregate has a metadata array, every row of it is a      *)
(* string pointer that is not null: the empty string for a row that has no *)
(* metadata, the JSON text of the metadata for a row that has.             *)
C19_MetadataRowsNotNull ==
    Returned /\ call.op \in {"materialize_get", "materialize_query"}
             /\ call.r.metadata_json # NULL =>
        /\ call.r.metadata_count = Len(MetadataRows)
        /\ \A i \in 1..call.r.metadata_count :
              /\ Deref(call.r.metadata_json)[i] # NULL
              /\ Deref(call.r.metadata_json)[i] =
                    IF MetadataRows[i].some
                    THEN Ptr(serde_json_to_string(MetadataRows[i].v))
                    ELSE Ptr("")

(* a metadata array with rows whose value holds a nul byte                 *)
C19_Witness ==
    /\ Returned
    /\ call.op = "materialize_query"
    /\ call.r.metadata_count = MaxResultRows
    /\ \A i \in 1..MaxResultRows :
          MetadataRows[i].some /\ MetadataRows[i].v.k \in NulStrings
----------------------------------------------------------------------------
(* Properties of the handle lifecycle                                      *)

(* C13: a successful destroy_client releases the handle it was given, its  *)
(* runtime and its frontend, once; a create_client that fails after it     *)
(* made the runtime drops it before it returns; and no runtime is ever     *)
(* live without the client handle that owns it.                            *)
C13_ClientReclaimedOnce ==
    /\ runtimes = {clients[h].runtime : h \in DOMAIN clients}
    /\ Returned /\ call.op = "chroma_destroy_client" /\ call.r.rc = Success =>
          /\ call.r.box = Some(Deref(call.a.client_handle))
          /\ call.r.rtDropped = 1
          /\ Deref(call.a.client_handle) \notin DOMAIN clients
          /\ Deref(call.a.client_handle) \notin runtimes
    /\ Returned /\ call.op = "chroma_create_client" =>
          /\ call.r.rc # Success => ~call.r.box.some /\ call.r.rtDropped = call.r.rtNew
          /\ call.r.rc = Success =>
                call.r.box.some /\ call.r.rtNew = 1 /\ call.r.rtDropped = 0

(* the client that create_client made has been destroyed and nothing is    *)
(* left of it                                                              *)
C13_Witness ==
    /\ Returned
    /\ call.op = "chroma_destroy_client"
    /\ call.r.rc = Success
    /\ call.r.box.some
    /\ clients = << >>
    /\ runtimes = {}

(* C15: destroy_client and destroy_collection given a null handle return   *)
(* InvalidArgument and release nothing.                                    *)
C15_NullHandleRefused ==
    /\ Returned /\ call.op = "chroma_destroy_client" /\ call.a.client_handle = NULL =>
          call.r.rc = InvalidArgument /\ ~call.r.box.some /\ call.r.rtDropped = 0
    /\ Returned /\ call.op = "chroma_destroy_collection"
                /\ call.a.collection_handle = NULL =>
          call.r.rc = InvalidArgument /\ ~call.r.box.some /\ call.r.rtDropped = 0

(* destroy_collection refused a null handle while a collection handle and  *)
(* a client are live, and both stay                                        *)
C15_Witness ==
    /\ Returned
    /\ call.op = "chroma_destroy_collection"
    /\ call.a.collection_handle = NULL
    /\ call.r.rc = InvalidArgument
    /\ DOMAIN collections # {}
    /\ DOMAIN clients # {}

----------------------------------------------------------------------------
(* Properties of the translation order and of the configuration            *)

(* a defect of the per-row array decoding in the arguments of the call     *)
ArrayDefect ==
    CASE call.op = "chroma_add" ->
            ~decode_ids(call.a, call.op).ok \/ ~decode_embeddings_add(call.a, call.op).ok
      [] call.op = "chroma_update" ->
            ~decode_ids(call.a, call.op).ok
            \/ ~decode_embeddings_update(call.a, call.op).ok
      [] call.op = "chroma_upsert" ->
            ~decode_ids(call.a, call.op).ok
            \/ ~decode_embeddings_upsert(call.a, call.op).ok
      [] call.op \in {"chroma_get", "chroma_delete"} ->
            ~decode_optional_ids(call.a, call.op).ok
      [] call.op = "chroma_query" -> ~check_query_embedding(call.a, call.op).ok
      [] OTHER -> FALSE

(* a defect of the JSON decoding in the arguments of the call              *)
JsonDefect ==
    CASE call.op \in {"chroma_add", "chroma_update", "chroma_upsert"} ->
            ~decode_metadatas(call.a, call.op).ok
      [] call.op \in {"chroma_get", "chroma_delete", "chroma_query"} ->
            ~parse_where_filters(call.a, call.op).ok
      [] OTHER -> FALSE

(* C16 as stated: the error reported is the one of the earliest stage; a   *)
(* call that returns InvalidUuid has no defect of array or JSON decoding,  *)
(* and a call that returns ValidationError has no defect of array          *)
(* decoding.                                                               *)
C16_Original ==
    Returned =>
        /\ call.r.rc = InvalidUuid => ~ArrayDefect /\ ~JsonDefect
        /\ call.r.rc = ValidationError => ~ArrayDefect

(* a query with dimension 0 on a handle whose id is not a UUID             *)
C16_Witness ==
    /\ Returned
    /\ call.op = "chroma_query"
    /\ call.a.embedding_dim = 0
    /\ call.r.rc = InvalidUuid

(* C17 as stated: the configuration handed to the engine carries           *)
(* allow_reset, the cache capacity, the persistence path and, from a       *)
(* storage-configuration block, hash_type, migration_mode and url.         *)
C17_Original ==
    Returned /\ call.op = "chroma_create_client" /\ call.r.engine # << >> =>
        LET config == call.r.engine[1].req
            a == call.a
        IN  /\ config.allow_reset = a.allow_reset
            /\ config.segment_manager.capacity = a.hnsw_cache_size
            /\ config.segment_manager.persist_path =
                  IF a.persist_path_ptr = NULL THEN None
                  ELSE Some(Deref(a.persist_path_ptr))
            /\ a.sqlite_config_ptr # NULL =>
                  LET sqlite_config == Deref(a.sqlite_config_ptr)
                  IN  /\ config.sqlitedb.hash_type =
                            MigrationHash(sqlite_config.hash_type)
                      /\ config.sqlitedb.migration_mode =
                            MigrationMode(sqlite_config.migration_mode)
                      /\ config.sqlitedb.url = Some(Deref(sqlite_config.url))

(* a client made from a storage-configuration block that names a url       *)
C17_Witness ==
    /\ Returned
    /\ call.op = "chroma_create_client"
    /\ call.r.rc = Success
    /\ call.a.sqlite_config_ptr # NULL
    /\ Deref(call.a.sqlite_config_ptr).url # NULL
    /\ call.r.engine[1].req.sqlitedb.url = None

----------------------------------------------------------------------------
(* Properties of the optional row payloads                                 *)

(* the rows of a metadata array and of a documents array as forwarded      *)
ForwardedMetadata(a) ==
    [i \in 1..a.ids_count |->
        IF Deref(a.metadatas_json)[i] \in {NULL, Ptr("")} THEN None
        ELSE Some([json |-> Deref(Deref(a.metadatas_json)[i])])]
ForwardedDocuments(a) ==
    [i \in 1..a.ids_count |->
        IF Deref(a.documents)[i] \in {NULL, Ptr("")} THEN None
        ELSE Some(Deref(Deref(a.documents)[i]))]
(* the rows that hold text which is not JSON                               *)
BadJsonRows(a) ==
    {i \in 1..a.ids_count :
        /\ Deref(a.metadatas_json)[i] \notin {NULL, Ptr("")}
        /\ Deref(Deref(a.metadatas_json)[i]) \notin ValidJsonStrings}
EmbeddingMessages == {Ptr("Embeddings pointer is null"), Ptr("Embedding pointer is null")}

(* C20: in add, update and upsert a null row of a non-null metadata array  *)
(* or documents array does not fail the call: a failure of the call is the *)
(* engine's, the request constructor's, an embedding's, or the JSON of a   *)
(* row that is not null; and the engine receives no metadata (document)    *)
(* for the null row and the decoded one for every other row, at the index  *)
(* of its id.                                                              *)
C20_NullPayloadRow ==
    Returned /\ call.op \in {"chroma_add", "chroma_update", "chroma_upsert"}
             /\ call.a.ids # NULL
             /\ (NullRows(call.a.metadatas_json, call.a.ids_count) # {}
                 \/ NullRows(call.a.documents, call.a.ids_count) # {})
    => /\ call.r.rc \in {Success, InternalError, ValidationError, InvalidArgument}
       /\ call.r.rc = InvalidArgument => call.r.errs[1].message \in EmbeddingMessages
       /\ call.r.rc = ValidationError =>
             IF call.r.errs[1].message = Ptr("Invalid metadata JSON")
             THEN /\ call.a.metadatas_json # NULL
                  /\ BadJsonRows(call.a) # {}
                  /\ call.r.errs[1].details =
                        Ptr(Fmt("Error parsing metadata at index {}: {}",
                                <<Least(BadJsonRows(call.a)) - 1>>))
             ELSE Deref(call.r.errs[1].details).fmt = "Validation error: {:?}"
       /\ call.r.engine # << >> =>
             /\ call.a.metadatas_json # NULL =>
                   call.r.engine[1].req.fields.metadatas =
                      Some(ForwardedMetadata(call.a))
             /\ call.a.documents # NULL =>
                   call.r.engine[1].req.fields.documents =
                      Some(ForwardedDocuments(call.a))

(* an upsert of two rows, the first with metadata and the second with a    *)
(* null metadata pointer, that the engine accepted                         *)
C20_Witness ==
    /\ Returned
    /\ call.op = "chroma_upsert"
    /\ call.a.ids_count = 2
    /\ NullRows(call.a.metadatas_json, 2) = {2}
    /\ call.r.rc = Success
    /\ call.r.engine[1].req.fields.metadatas.v[1].some
    /\ call.r.engine[1].req.fields.metadatas.v[2] = None
----------------------------------------------------------------------------
(* Two calls that differ in one argument.  The entry points are pure in    *)
(* their arguments, the handle tables and what the environment and the     *)
(* engine answer, so one entry point is applied twice to the same answer.  *)

(* the exported function of the given name applied to its arguments        *)
EntryPoint(op, a, env) ==
    CASE op = "chroma_create_client" -> chroma_create_client(a, env)
      [] op = "chroma_destroy_client" -> chroma_destroy_client(a)
      [] op = "chroma_heartbeat" -> chroma_heartbeat(a, env)
      [] op = "chroma_create_database" -> chroma_create_database(a, env)
      [] op = "chroma_get_database" -> chroma_get_database(a, env)
      [] op = "chroma_delete_database" -> chroma_delete_database(a, env)
      [] op = "chroma_create_collection" -> chroma_create_collection(a, env)
      [] op = "chroma_get_collection" -> chroma_get_collection(a, env)
      [] op = "chroma_add" -> chroma_add(a, env)
      [] op = "chroma_count" -> chroma_count(a, env)
      [] op = "chroma_update" -> chroma_update(a, env)
      [] op = "chroma_upsert" -> chroma_upsert(a, env)
      [] op = "chroma_delete" -> chroma_delete(a, env)
      [] op = "chroma_get" -> chroma_get(a, env)
      [] op = "chroma_query" -> chroma_query(a, env)

(* the arguments a caller can pass to an entry point, each with an answer  *)
(* of the environment and the engine; wide takes the argument sets of the  *)
(* specification of all entry points, otherwise the operations on rows     *)
(* are given one valid payload and an error_out                            *)
CallsOf(op, wide) ==
    LET MutationEnvs == UNION {MutationEnv(verdict) : verdict \in Verdicts}
        GetEnvs == UNION {GetEnv(verdict, SampleGetResponses, SampleMallocOutcomes) :
                             verdict \in Verdicts}
        QueryEnvs == UNION {QueryEnv(verdict, SampleQueryResponses, SampleMallocOutcomes) :
                               verdict \in Verdicts}
        Mutations == IF wide THEN MutationArgs
                     ELSE MutationArgsOver(ClientPtrs, CollectionPtrs, OutPtrs,
                                           PlainRowArrays(IdStrings), PlainEmbeddingArrays,
                                           PlainRowArrays({"{\"k\":1}"}), PlainRowArrays(DocStrings))
        Deletes == IF wide THEN DeleteArgs
                   ELSE DeleteArgsOver(ClientPtrs, CollectionPtrs, OutPtrs,
                                       PlainRowArrays(IdStrings), {NULL}, {NULL})
        Gets == IF wide THEN GetArgs
                ELSE GetArgsOver(ClientPtrs, CollectionPtrs, OutPtrs \ {NULL}, OutPtrs,
                                 PlainRowArrays(IdStrings), {NULL}, {NULL}, {0}, {TRUE})
        Queries == IF wide THEN QueryArgs
                   ELSE QueryArgsOver(ClientPtrs, CollectionPtrs, OutPtrs \ {NULL}, OutPtrs,
                                      QueryEmbeddingPtrs, {2}, {NULL}, {NULL}, {TRUE})
        All ==
          CASE op = "chroma_create_client" -> CreateClientArgs \X CreateClientEnv
            [] op = "chroma_destroy_client" -> DestroyClientArgs \X {"none"}
            [] op = "chroma_heartbeat" -> HeartbeatArgs \X HeartbeatEnv
            [] op = "chroma_create_database" -> DatabaseArgs \X DatabaseEnv
            [] op = "chroma_get_database" -> GetDatabaseArgs \X DatabaseEnv
            [] op = "chroma_delete_database" -> DatabaseArgs \X DatabaseEnv
            [] op = "chroma_create_collection" -> CreateCollectionArgs \X CollectionEnv
            [] op = "chroma_get_collection" -> GetCollectionArgs \X CollectionEnv
            [] op = "chroma_add" -> Mutations \X MutationEnvs
            [] op = "chroma_count" -> CountArgs \X CountEnv
            [] op = "chroma_update" -> Mutations \X MutationEnvs
            [] op = "chroma_upsert" -> Mutations \X MutationEnvs
            [] op = "chroma_delete" -> Deletes \X MutationEnvs
            [] op = "chroma_get" -> Gets \X GetEnvs
            [] op = "chroma_query" -> Queries \X QueryEnvs
    IN  IF wide THEN All ELSE {c \in All : c[1].error_out # NULL}

(* one of the entry points Ops is applied to the same arguments and the    *)
(* same answer twice, with the argument named field first v1 and then v2   *)
twin(field, Ops, v1, v2) ==
    /\ call = IdleCall
    /\ \E op \in Ops : \E c \in CallsOf(op, TRUE) :
          call' = [op |-> field,
                   a |-> [entry |-> op, args |-> [c[1] EXCEPT ![field] = v1]],
                   r |-> <<EntryPoint(op, [c[1] EXCEPT ![field] = v1], c[2]),
                           EntryPoint(op, [c[1] EXCEPT ![field] = v2], c[2])>>]
    /\ UNCHANGED <<clients, runtimes, collections>>

(* the caller creates one client and one collection and then makes the     *)
(* calls that are compared                                                 *)
NextTwin ==
    \/ clients = << >> /\ create_client
    \/ collections = << >> /\ create_collection
    \/ twin("error_out", ErrorOutOps, NULL, Ptr("slot"))
    \/ twin("include_embeddings", {"chroma_get", "chroma_query"}, FALSE, TRUE)
    \/ Return

SpecTwin == Init /\ [][NextTwin]_vars

----------------------------------------------------------------------------
(* Calls in flight.  An entry point runs on the thread of its caller: it   *)
(* translates its arguments, hands the request to the engine with          *)
(* client.runtime.block_on and waits there, then builds its results.  Two  *)
(* callers use the same client and the same collection; call holds the     *)
(* position of each one.  The entry points that add or remove a handle are *)
(* left to the specification of all entry points.                          *)
Threads == {1, 2}

ThreadOps ==
    ErrorOutOps \ {"chroma_create_client", "chroma_destroy_client",
                   "chroma_create_collection", "chroma_get_collection"}

Waiting(t) == "waiting" \in DOMAIN call[t]
Done(t) == "r" \in DOMAIN call[t]

InitThreads ==
    /\ clients = (1 :> [runtime |-> 1, frontend |-> 1])
    /\ runtimes = {1}
    /\ collections = (1 :> [id |-> CHOOSE u \in ValidUuidStrings : TRUE,
                            tenant |-> DEFAULT_TENANT,
                            database |-> DEFAULT_DATABASE])
    /\ call = [t \in Threads |-> IdleCall]

(* a caller that waits for the engine whatever its arguments are           *)
enter_always_waits(t) ==
    /\ call[t] = IdleCall
    /\ \E op \in ThreadOps : \E c \in CallsOf(op, FALSE) :
          LET r == EntryPoint(op, c[1], c[2])
          IN  call' = [call EXCEPT ![t] =
                         [op |-> op, a |-> c[1],
                          waiting |-> IF r.engine = << >> THEN [fn |-> "none"]
                                      ELSE r.engine[1]]]
    /\ UNCHANGED <<clients, runtimes, collections>>

(* an entry that moves the frontend out of the handle instead of cloning it *)
enter_takes_frontend(t) ==
    /\ call[t] = IdleCall
    /\ \E op \in ThreadOps : \E c \in CallsOf(op, FALSE) :
          LET r == EntryPoint(op, c[1], c[2])
          IN  /\ call' = [call EXCEPT ![t] =
                            IF r.engine = << >>
                            THEN [op |-> op, a |-> c[1], r |-> r]
                            ELSE [op |-> op, a |-> c[1], waiting |-> r.engine[1]]]
              /\ clients' = IF r.engine = << >> THEN clients
                            ELSE [h \in DOMAIN clients |->
                                     [clients[h] EXCEPT !.frontend = 0]]
    /\ UNCHANGED <<runtimes, collections>>

(* the entry point up to its engine invocation: a call that fails a local  *)
(* check, or that has no engine invocation, returns at once; any other     *)
(* call is left waiting in block_on with the request it built, the runtime *)
(* of its client and its clone of the frontend                             *)
enter(t) ==
    /\ call[t] = IdleCall
    /\ \E op \in ThreadOps : \E c \in CallsOf(op, FALSE) :
          LET r == EntryPoint(op, c[1], c[2])
          IN  call' = [call EXCEPT ![t] =
                         IF r.engine = << >>
                         THEN [op |-> op, a |-> c[1], r |-> r]
                         ELSE [op |-> op, a |-> c[1], waiting |-> r.engine[1]]]
    /\ UNCHANGED <<clients, runtimes, collections>>

(* the engine resolves the invocation and the entry point builds its       *)
(* results from the answer                                                 *)
engine_answers(t) ==
    /\ Waiting(t)
    /\ \E c \in CallsOf(call[t].op, FALSE) :
          LET r == EntryPoint(call[t].op, call[t].a, c[2])
          IN  /\ c[1] = call[t].a
              /\ r.engine = <<call[t].waiting>>
              /\ call' = [call EXCEPT ![t] = [op |-> call[t].op, a |-> call[t].a, r |-> r]]
    /\ UNCHANGED <<clients, runtimes, collections>>

(* the caller takes the results                                            *)
leave(t) ==
    /\ Done(t)
    /\ call' = [call EXCEPT ![t] = IdleCall]
    /\ UNCHANGED <<clients, runtimes, collections>>

NextThreads == \E t \in Threads : enter(t) \/ engine_answers(t) \/ leave(t)

(* the engine answers every invocation it is given                         *)
SpecThreads ==
    InitThreads /\ [][NextThreads]_vars /\ \A t \in Threads : WF_vars(engine_answers(t))

----------------------------------------------------------------------------
(* C21: the distances array of a query aggregate is made from the first    *)
(* row of the response's distances and from no other row: it has one entry *)
(* per entry of that row, in the row's order, and an entry the engine left *)
(* absent is written as 0.                                                 *)
C21_DistancesFromFirstRow ==
    call.op = "materialize_query" =>
        LET d == call.a.response.distances
            usable == d.some /\ Len(d.v) # 0 /\ Len(d.v[1]) # 0
        IN  /\ usable /\ call.a.malloc.distances => call.r.distances # NULL
            /\ call.r.distances # NULL =>
                   /\ usable
                   /\ call.r.distances_count = Len(d.v[1])
                   /\ Len(Deref(call.r.distances)) = Len(d.v[1])
                   /\ \A i \in 1..Len(d.v[1]) :
                          Deref(call.r.distances)[i] =
                              IF d.v[1][i].some THEN d.v[1][i].v ELSE 0

C21_Witness ==
    /\ call.op = "materialize_query"
    /\ call.a.response.distances.some
    /\ Len(call.a.response.distances.v) = 2
    /\ ~call.a.response.distances.v[1][1].some
    /\ call.a.response.distances.v[1][2].some
    /\ call.r.distances # NULL
    /\ Deref(call.r.distances)[1] = 0
    /\ call.r.distances_count = 2

(* C23: a call whose engine invocation fails returns InternalError, or     *)
(* NotFound when the entry point is get_database or get_collection, and    *)
(* its Error Object carries that code and a detail that is not null and    *)
(* holds the rendering of the engine's error.                              *)
EngineFailed ==
    /\ Returned /\ call.op \in ErrorOutOps
    /\ call.r.engine # << >> /\ call.r.rc # Success

EmptyIdsDelete ==
    /\ Returned /\ call.op = "chroma_delete"
    /\ call.a.client_handle # NULL /\ call.a.collection_handle # NULL
    /\ call.a.ids # NULL /\ call.a.ids_count = 0
    /\ call.a.where_filter_json = NULL /\ call.a.where_document_filter = NULL

C27_EmptyIdsNotRefused ==
    EmptyIdsDelete =>
        /\ call.r.rc \in {Success, InternalError, ValidationError, InvalidUuid}
        /\ call.r.rc \in {Success, InternalError} <=> call.r.engine # << >>
        /\ call.r.engine # << >> =>
               /\ call.r.engine[1].req.fields.ids = None
               /\ call.r.engine[1].req.fields.where = None

C27_Witness ==
    /\ EmptyIdsDelete
    /\ call.r.rc = Success
    /\ call.r.engine[1].fn = "delete"
    /\ call.r.engine[1].req.fields.ids = None

(* C28: create_client given a storage configuration whose url is null      *)
(* fails with InvalidArgument; the failure is the url's, whatever the      *)
(* selectors are, and no runtime is created and the engine is not invoked. *)
(* A url that is not null is read and then left out of the configuration   *)
(* handed to the engine.                                                   *)
NullUrlCreate ==
    /\ Returned /\ call.op = "chroma_create_client"
    /\ call.a.sqlite_config_ptr # NULL
    /\ Deref(call.a.sqlite_config_ptr).url = NULL

C28_NullUrlRefusedFirst ==
    /\ NullUrlCreate =>
           /\ call.r.rc = InvalidArgument
           /\ call.r.rtNew = 0 /\ call.r.engine = << >> /\ call.r.outw = << >>
           /\ call.a.client_handle # NULL /\ call.a.error_out # NULL =>
                  /\ call.r.errs[1].message = Ptr("Invalid SQLite URL")
                  /\ call.r.errs[1].details = Ptr(Fmt("Null string pointer", << >>))
    /\ Returned /\ call.op = "chroma_create_client" /\ call.r.engine # << >> =>
           call.r.engine[1].req.sqlitedb.url = None

C28_Witness ==
    /\ NullUrlCreate
    /\ Deref(call.a.sqlite_config_ptr).hash_type \notin {0, 1}
    /\ Deref(call.a.sqlite_config_ptr).migration_mode \notin {0, 1}
    /\ call.a.client_handle # NULL /\ call.a.error_out # NULL
    /\ call.r.rc = InvalidArgument
    /\ call.r.errs[1].message = Ptr("Invalid SQLite URL")

(* C29: in add, update and upsert a metadata or document row that points   *)
(* to the empty text is forwarded as absent, as a null row is.  The empty  *)
(* metadata text is not parsed as JSON, so it is never the row a JSON      *)
(* failure names, and no request carries the empty text as a document.     *)
EmptyRows(array, n) ==
    IF array = NULL THEN {} ELSE {i \in 1..n : Deref(array)[i] = Ptr("")}

C29_EmptyRowIsAbsent ==
    Returned /\ call.op \in {"chroma_add", "chroma_update", "chroma_upsert"}
             /\ call.a.ids # NULL
    => /\ (call.r.rc = ValidationError
           /\ call.r.errs[1].message = Ptr("Invalid metadata JSON")) =>
             Deref(call.r.errs[1].details).args[1] + 1
                 \notin EmptyRows(call.a.metadatas_json, call.a.ids_count)
       /\ call.r.engine # << >> =>
             LET fields == call.r.engine[1].req.fields
             IN  /\ \A i \in EmptyRows(call.a.metadatas_json, call.a.ids_count) :
                        fields.metadatas.v[i] = None
                 /\ \A i \in EmptyRows(call.a.documents, call.a.ids_count) :
                        fields.documents.v[i] = None
                 /\ fields.documents.some =>
                        \A i \in 1..call.a.ids_count :
                           fields.documents.v[i].some => fields.documents.v[i].v # ""

C29_Witness ==
    /\ Returned /\ call.op = "chroma_add"
    /\ call.a.ids_count = 2
    /\ EmptyRows(call.a.metadatas_json, 2) = {1}
    /\ NullRows(call.a.metadatas_json, 2) = {}
    /\ EmptyRows(call.a.documents, 2) = {1, 2}
    /\ call.r.rc = Success
    /\ call.r.engine[1].req.fields.metadatas.v[1] = None
    /\ call.r.engine[1].req.fields.metadatas.v[2].some
    /\ call.r.engine[1].req.fields.documents.v[1] = None

(* C26: a call made with a null error_out and the same call made with a   *)
(* non-null one return the same code, write the same values through the    *)
(* other out-parameters, make the same engine invocation and leave the     *)
(* same handles and runtimes; the first allocates no Error Object, the     *)
(* second exactly one.                                                     *)
C26_ErrorOutIrrelevant ==
    call.op = "error_out" =>
        /\ call.r[1].rc = call.r[2].rc
        /\ call.r[1].outw = call.r[2].outw
        /\ call.r[1].engine = call.r[2].engine
        /\ call.r[1].box = call.r[2].box
        /\ call.r[1].rtNew = call.r[2].rtNew
        /\ call.r[1].rtDropped = call.r[2].rtDropped
        /\ call.r[1].errs = << >>
        /\ Len(call.r[2].errs) = 1

C26_Witness ==
    /\ call.op = "error_out"
    /\ call.a.entry = "chroma_count"
    /\ call.r[1].rc = InternalError
    /\ call.r[1].engine # << >>
    /\ call.r[1].errs = << >>
    /\ call.r[2].errs[1].code = InternalError

(* C30: get and query put "embeddings" first in the include list of the    *)
(* request when include_embeddings is set, before metadatas, documents and *)
(* distances in that order, and nothing else in the call depends on the    *)
(* flag: the code, the Error Object and the Result Aggregate are the same  *)
(* for the same engine response, and the aggregate has no embeddings.      *)
AggregateFields ==
    {"ids", "ids_count", "distances", "distances_count",
     "metadata_json", "metadata_count", "documents", "documents_count"}

C30_IncludeEmbeddingsIgnored ==
    call.op = "include_embeddings" =>
        LET without == call.r[1]
            with == call.r[2]
            a == call.a.args
            others == push_if(a.include_metadatas, "metadatas")
                      \o push_if(a.include_documents, "documents")
                      \o IF call.a.entry = "chroma_query"
                         THEN push_if(a.include_distances, "distances")
                         ELSE << >>
        IN  /\ without.rc = with.rc
            /\ without.errs = with.errs
            /\ without.outw = with.outw
            /\ with.rc = Success => DOMAIN Deref(with.outw[1]) = AggregateFields
            /\ (without.engine = << >>) <=> (with.engine = << >>)
            /\ with.engine # << >> =>
                   /\ without.engine[1].req.fields.include = others
                   /\ with.engine[1].req.fields.include = <<"embeddings">> \o others
                   /\ [with.engine[1].req.fields EXCEPT !.include = others]
                         = without.engine[1].req.fields
                   /\ with.engine[1].rt = without.engine[1].rt
                   /\ with.engine[1].fn = without.engine[1].fn

C30_Witness ==
    /\ call.op = "include_embeddings"
    /\ call.a.entry = "chroma_query"
    /\ call.r[2].rc = Success
    /\ call.r[2].engine[1].req.fields.include
          = <<"embeddings", "metadatas", "documents", "distances">>
    /\ Deref(call.r[2].outw[1]).ids # NULL
    /\ call.r[1].outw = call.r[2].outw

(* C22: when the engine answers every invocation, a call that waits for    *)
(* the engine returns, and every call returns one of the eight codes.  A   *)
(* call waits at its one engine invocation and nowhere else: a call that   *)
(* returns without having waited made no invocation, which includes every  *)
(* call that fails a local check, and a call that waited returns with the  *)
(* invocation it waited for and with Success, InternalError or NotFound.   *)
TerminalCodes ==
    {Success, InvalidArgument, InternalError, MemoryError, NotFound,
     ValidationError, InvalidUuid, NotImplemented}

UsesCollection(t) == "collection_handle" \in DOMAIN call[t].a

====
